---- MODULE Spec2Model ----
(***************************************************************************)
(* Model of the chunking, ranking and search code of the annotation tool:  *)
(* chunkText / findSentenceEnd, textMatchScore, globalSearch and           *)
(* searchProjectDocument (server/projectSearch.ts), and the set-intent and *)
(* search route handlers (routes, concatenated in SearchPanel.tsx), with   *)
(* the routes that add and delete one annotation, isGarbledText and the    *)
(* upload route (same file),                                               *)
(* and extractTextFromTxt and the search panel of the client.              *)
(*                                                                         *)
(* Strings are sequences of characters, each a string of TLA+ (a character *)
(* without an escape is named by its code point); positions are 0-based as *)
(* in JavaScript.                                                          *)
(***************************************************************************)
EXTENDS Integers, Sequences, FiniteSets, TLC

VARIABLES
    \* ---- chunkText(text, chunkSize, overlap): one call in progress
    text,        \* the argument text
    chunkSize,   \* the argument chunkSize
    overlap,     \* the argument overlap
    start,       \* the local cursor `start`
    chunks,      \* the local array `chunks`
    iter,        \* number of loop iterations executed so far
    cpc,         \* "loop": at the while test; "done": returned; "off": no call
    \* ---- the database and the collaborators of the set-intent handler
    nChunks,     \* number of chunks stored for document "d1", ids 1..nChunks
    embOf,       \* embOf[c]: the vector getEmbedding returns for chunk c's text
    stored,      \* stored[c]: the embedding column of chunk c, NoVec when null
    userIntent,  \* the userIntent column of document "d1"
    annotations, \* the annotation rows of document "d1", in insertion order
    mayFail,     \* whether the embedding provider and the pipeline may throw
    clientWaits, \* whether the client sends its requests one after the other
    runsLeft,    \* requests the client may still send
    nextRun,     \* id given to the next request
    responses,   \* the responses sent so far: <<[run, status, cause], ...>>
    \* ---- POST /api/documents/:id/set-intent, per request slot
    rpc,         \* position of the handler: the await it is suspended at
    req,         \* req.params.id and req.body: [docId, intent, thoroughness]
    run,         \* id of the request the slot is serving
    level,       \* const level
    snap,        \* const chunks: the embedding of each chunk as read
    task,        \* state of each async callback of chunks.map(...)
    got,         \* the embedding each callback holds (chunksWithEmbeddings)
    embedCalls,  \* getEmbedding(chunk.text) calls made by the request, per chunk
    embedWrites, \* updateChunkEmbedding writes made by the request, per chunk
    ranked,      \* const rankedChunks: <<[chunk, similarity], ...>>
    top,         \* const topChunks: chunk ids, as handed to the pipeline
    annSnap,     \* const existingAnnotations
    todo,        \* annotations left to delete / to create in the running loop
    annBefore,   \* the annotation rows as they were when the request arrived
    \* ---- POST /api/documents/:id/annotate and DELETE /api/annotations/:id
    epc,         \* position of the handler: the await it is suspended at
    ereq,        \* the request being served
    editsLeft,   \* requests to these routes the client may still send
    eresp,       \* the statuses answered so far
    \* ---- textMatchScore(query, text): one call
    query,       \* the argument query (also the query of globalSearch)
    candidate,   \* the argument text
    score,       \* the value returned
    lpc,         \* "call": called; "done": returned; "off": no call
    \* ---- globalSearch(projectId, query, filters, limit): one call
    gdb,         \* the tables: [project, folders, projectDocs, annotations]
    projectId,   \* the argument projectId
    filters,     \* the argument filters
    limit,       \* the argument limit
    results,     \* the local array `results`
    gresp,       \* the value returned, NoResponse before the return
    gpc,         \* the await the call is suspended at; "done"; "off"
    \* ---- single-document search: POST /api/documents/:id/search and
    \* ---- searchProjectDocument, one call
    svia,        \* "route" or "projectDocument": which of the two runs
    sdoc,        \* req.params.id / projectDocId
    schunks,     \* const chunks / docChunks: the embedding of each chunk as read
    sranked,     \* const rankedChunks: <<[chunk, similarity], ...>>
    handed,      \* the chunks handed to searchDocument, << >> when not called
    sresp,       \* the outcome: "none", "json", "400", "404", "500", "return", "throw"
    spc,         \* the await the call is suspended at; "done"; "off"
    \* ---- isGarbledText(text): one call
    gtext,       \* the argument text
    garbled,     \* the value returned
    gtpc,        \* "call": called; "done": returned; "off": no call
    \* ---- POST /api/upload: one request
    file,        \* req.file: [present, mimetype, ext, content]
    fullText,    \* let fullText, << >> before the extraction
    documents,   \* the document rows created: <<[fullText, chunkCount, summary]>>
    chunkRows,   \* the chunk rows created for the document, in order
    pending,     \* const chunks: the chunks still to be stored
    summaryTask, \* generateDocumentSummary(...).then: "none", "running", ...
    mayThrow,    \* whether the parser, the storage and the summary may throw
    uresp,       \* the response: [status, cause], NoUploadResponse before it
    upc,         \* the await the handler is suspended at; "done"; "off"
    \* ---- SearchPanel: the component state and its onSearch calls
    panelDocumentId, \* the prop documentId, "" when null
    panelQuery,     \* const [query, setQuery]
    panelResults,   \* const [results, setResults]
    isSearching,    \* const [isSearching, setIsSearching]
    showAllResults, \* const [showAllResults, setShowAllResults]
    calls,          \* the onSearch calls made: <<[query, state, value], ...>>
    submits         \* form submit events handled so far

chunkVars == <<text, chunkSize, overlap, start, chunks, iter, cpc>>

worldVars == <<nChunks, embOf, mayFail, clientWaits>>
dbVars == <<stored, userIntent, annotations>>
clientVars == <<runsLeft, nextRun, responses>>
reqVars == <<rpc, req, run, level, snap, task, got, embedCalls, embedWrites,
             ranked, top, annSnap, todo, annBefore>>
editVars == <<epc, ereq, editsLeft, eresp>>
intentVars == <<worldVars, dbVars, clientVars, reqVars, editVars>>

lexVars == <<query, candidate, score, lpc>>
globalVars == <<gdb, projectId, filters, limit, results, gresp, gpc>>
docSearchVars == <<svia, sdoc, schunks, sranked, handed, sresp, spc>>
searchVars == <<lexVars, globalVars, docSearchVars>>

garbleVars == <<gtext, garbled, gtpc>>
uploadVars == <<file, fullText, documents, chunkRows, pending, summaryTask,
                mayThrow, uresp, upc>>
panelVars == <<panelDocumentId, panelQuery, panelResults, isSearching,
               showAllResults, calls, submits>>
frontVars == <<garbleVars, uploadVars, panelVars>>

vars == <<chunkVars, intentVars, searchVars, frontVars>>

----------------------------------------------------------------------------
\* Bounds of the model.

\* Longest text enumerated character by character.
MaxLen == 5
\* Largest chunkSize and overlap tried on the enumerated texts.
MaxSmallSize == 3
\* Loop iterations followed before a call is given up as non-returning.
MaxIter == 10
\* Most chunks of a document whose vectors are enumerated.
MaxChunks == 3
\* Most chunks of a document with embeddings missing.
MaxCacheChunks == 2
\* Requests sent one after the other to a document.
MaxRuns == 2
\* Most annotations one pipeline run returns.
MaxPipelineAnns == 1
\* Requests sent to the routes that add and delete one annotation.
MaxEdits == 1
\* Most chunks of a document sent concurrent requests.
MaxConcurrentChunks == 1
\* Longest query and longest text enumerated character by character.
MaxQueryLen == 4
MaxTextLen == 3
\* Most words of a query and of a text made of words.
MaxWords == 3
MaxTextWords == 2
\* Most folders, documents and annotations of a project searched for order.
MaxSources == 1
\* Largest limit given to globalSearch.
MaxLimit == 3
\* Most chunks of a document searched.
MaxSearchChunks == 7
\* Words and bracket characters of a text on either side of the thresholds
\* of isGarbledText.
MaxMargin == 2
\* Most chunks chunkTextV2 makes of an uploaded text.
MaxUploadChunks == 2
\* Form submit events sent to a SearchPanel.
MaxSubmits == 2
\* Most results one onSearch call resolves with.
MaxPanelResults == 6

----------------------------------------------------------------------------
\* JavaScript numbers.

Min(a, b) == IF a < b THEN a ELSE b
Max(a, b) == IF a > b THEN a ELSE b

\* The scores are IEEE 754 doubles. A double that is not negative is kept as
\* <<e, f3, f2, f1, f0>>: e is its biased exponent and f3 .. f0 are the 52
\* bits of its fraction in four digits of 13 bits, the most significant
\* first. It is the number (1 + f / 2^52) * 2^(e - 1023), where
\* f = ((f3 * 8192 + f2) * 8192 + f1) * 8192 + f0, and <<0, 0, 0, 0, 0>> is 0.
\* Tuples of this form are ordered as the numbers are.
DoubleZero == <<0, 0, 0, 0, 0>>

\* The sign of x - y: -1, 0 or 1.
DoubleCompare(x, y) ==
    LET differ == { i \in 1 .. 5 : x[i] # y[i] }
    IN  IF differ = {} THEN 0
        ELSE LET i == CHOOSE j \in differ : \A k \in differ : j <= k
             IN  IF x[i] < y[i] THEN -1 ELSE 1

\* The 53 bits 1.f of a double, as five digits, the least significant first.
Mantissa(x) == <<x[5], x[4], x[3], x[2], 1>>

\* The digits ds, the least significant first, with carry c brought in and
\* every digit brought below 8192; the last digit is the carry that is left.
RECURSIVE Carried(_, _)
Carried(ds, c) ==
    IF ds = << >> THEN <<c>>
    ELSE <<(ds[1] + c) % 8192>> \o Carried(Tail(ds), (ds[1] + c) \div 8192)

\* The digits ds shifted right by b < 13 bits.
ShiftedRight(ds, b) ==
    [i \in 1 .. Len(ds) |->
        (ds[i] \div 2^b)
        + (IF i < Len(ds) THEN (ds[i + 1] % 2^b) * 2^(13 - b) ELSE 0)]

\* Rounding to nearest, ties to even: the double of biased exponent e whose 53
\* bits are m, when the bits cut off behind them begin with `half` and one of
\* those that follow is 1 exactly if `rest`.
Rounded(e, m, half, rest) ==
    LET up == half /\ (rest \/ m[1] % 2 = 1)
        s  == Carried(<<m[1] + (IF up THEN 1 ELSE 0), m[2], m[3], m[4], m[5]>>, 0)
    IN  IF s[5] = 2 THEN <<e + 1, 0, 0, 0, 0>>
        ELSE <<e, s[4], s[3], s[2], s[1]>>

\* a / b for the integers 0 <= a and 0 < b, both below 2^17: a is doubled
\* until it is not below b, then b until the quotient is in [1, 2), and the
\* division goes on for the 52 bits of the fraction.
DoubleDivide(a, b) ==
    IF a = 0 THEN DoubleZero
    ELSE LET s  == CHOOSE k \in 0 .. 17 :
                       a * 2^k >= b /\ (k = 0 \/ a * 2^(k - 1) < b)
             n  == a * 2^s
             t  == CHOOSE k \in 0 .. 17 : b * 2^k <= n /\ b * 2^(k + 1) > n
             d  == b * 2^t
             r3 == n - d
             r2 == (r3 * 8192) % d
             r1 == (r2 * 8192) % d
             r0 == (r1 * 8192) % d
             r  == (r0 * 8192) % d
             m  == <<(r0 * 8192) \div d, (r1 * 8192) \div d, (r2 * 8192) \div d,
                     (r3 * 8192) \div d, 1>>
         IN  Rounded(1023 + t - s, m, 2 * r >= d, 2 * r > d)

\* x * y for doubles that are not negative: the product of the mantissas has
\* 105 or 106 bits, of which the first 53 are kept.
DoubleTimes(x, y) ==
    IF x = DoubleZero \/ y = DoubleZero THEN DoubleZero
    ELSE LET a    == Mantissa(x)
             b    == Mantissa(y)
             sums == [k \in 1 .. 9 |->
                        LET lo == Max(1, k - 4)
                            hi == Min(5, k)
                            term[i \in lo - 1 .. hi] ==
                                IF i < lo THEN 0
                                ELSE term[i - 1] + a[i] * b[k + 1 - i]
                        IN  term[hi]]
             p    == Carried(sums, 0)
             low  == \E i \in 1 .. 3 : p[i] # 0
         IN  IF p[9] >= 2
             THEN Rounded(x[1] + y[1] - 1022,
                          SubSeq(ShiftedRight(SubSeq(p, 5, 10), 1), 1, 5),
                          p[5] % 2 = 1, low \/ p[4] # 0)
             ELSE Rounded(x[1] + y[1] - 1023, SubSeq(p, 5, 9),
                          p[4] >= 4096, low \/ p[4] % 4096 # 0)

\* x + y for doubles that are not negative: the mantissa of the smaller one is
\* shifted to the exponent of the larger one, 13 more bits being kept, and the
\* first 53 bits of the sum are kept.
DoublePlus(x, y) ==
    IF x = DoubleZero THEN y
    ELSE IF y = DoubleZero THEN x
    ELSE LET big    == IF DoubleCompare(x, y) >= 0 THEN x ELSE y
             small  == IF DoubleCompare(x, y) >= 0 THEN y ELSE x
             k      == big[1] - small[1]
             whole  == Min(k \div 13, 6)
             digits == <<0>> \o Mantissa(small)
             kept   == [i \in 1 .. 6 |->
                          IF i + whole <= 6 THEN digits[i + whole] ELSE 0]
             moved  == ShiftedRight(kept, k % 13)
             lost   == \/ \E i \in 1 .. whole : digits[i] # 0
                       \/ kept[1] % 2^(k % 13) # 0
             first  == <<0>> \o Mantissa(big)
             s      == Carried([i \in 1 .. 6 |-> first[i] + moved[i]], 0)
         IN  IF s[6] >= 2
             THEN Rounded(big[1] + 1,
                          SubSeq(ShiftedRight(SubSeq(s, 2, 7), 1), 1, 5),
                          s[2] % 2 = 1, lost \/ s[1] # 0)
             ELSE Rounded(big[1], SubSeq(s, 2, 6),
                          s[1] >= 4096, lost \/ s[1] % 4096 # 0)

----------------------------------------------------------------------------
\* JavaScript string primitives.

\* A relative index as String.prototype.slice resolves it.
SliceIndex(n, i) == IF i < 0 THEN Max(n + i, 0) ELSE Min(i, n)

\* String.prototype.slice(b, e)
Slice(t, b, e) ==
    LET from == SliceIndex(Len(t), b)
        to   == SliceIndex(Len(t), e)
    IN  IF from >= to THEN << >> ELSE SubSeq(t, from + 1, to)

\* String.prototype.indexOf(pat, from): -1 when there is no occurrence.
IndexOf(t, pat, from) ==
    LET f    == Max(from, 0)
        hits == { p \in f .. (Len(t) - Len(pat)) :
                     SubSeq(t, p + 1, p + Len(pat)) = pat }
    IN  IF hits = {} THEN -1
        ELSE CHOOSE p \in hits : \A q \in hits : p <= q

\* The characters of the class \s and of String.prototype.trim: WhiteSpace and
\* LineTerminator of ECMAScript. A character that has no escape in a string
\* of TLA+ is written as the one-element string of its code point.
WhiteSpaceChars ==
    {" ", "\n", "\t", "\r", "\f", "u000B", "u00A0", "u1680", "u2000", "u2001",
     "u2002", "u2003", "u2004", "u2005", "u2006", "u2007", "u2008", "u2009",
     "u200A", "u2028", "u2029", "u202F", "u205F", "u3000", "uFEFF"}

IsWhitespace(c) == c \in WhiteSpaceChars

\* String.prototype.trim() is truthy: some character is not whitespace.
NonBlank(t) == \E i \in 1 .. Len(t) : ~IsWhitespace(t[i])

----------------------------------------------------------------------------
\* findSentenceEnd

sentenceEnders ==
    << <<".", " ">>, <<".", "\n">>, <<"!", " ">>, <<"!", "\n">>,
       <<"?", " ">>, <<"?", "\n">> >>

\* The default values of the parameters chunkSize and overlap.
DefaultChunkSize == 500
DefaultOverlap == 50

\* Half-width of the window around targetLength.
SentenceWindow == 50
\* Characters of lookahead past `end` handed to findSentenceEnd.
Lookahead == 100

\* The inner while loop for one ender, entered with pos; the value assigned to
\* bestPos, or -1 when the loop leaves bestPos alone.
RECURSIVE ScanEnder(_, _, _, _)
ScanEnder(t, ender, targetLength, pos) ==
    IF pos = -1 \/ pos > targetLength + SentenceWindow THEN -1
    ELSE IF pos >= targetLength - SentenceWindow THEN pos + Len(ender)
    ELSE ScanEnder(t, ender, targetLength, IndexOf(t, ender, pos + 1))

\* The for loop over sentenceEnders[k..], entered with bestPos.
RECURSIVE ScanEnders(_, _, _, _)
ScanEnders(t, targetLength, k, bestPos) ==
    IF k > Len(sentenceEnders) THEN bestPos
    ELSE LET r == ScanEnder(t, sentenceEnders[k], targetLength,
                            IndexOf(t, sentenceEnders[k], 0))
         IN  ScanEnders(t, targetLength, k + 1, IF r = -1 THEN bestPos ELSE r)

findSentenceEnd(t, targetLength) == ScanEnders(t, targetLength, 1, -1)

----------------------------------------------------------------------------
\* chunkText

\* `end` of the iteration that starts at cursor s.
ChunkEnd(t, s, size) ==
    LET end == s + size
    IN  IF end < Len(t)
        THEN LET slice       == Slice(t, s, Min(end + Lookahead, Len(t)))
                 sentenceEnd == findSentenceEnd(slice, size)
             IN  IF sentenceEnd > 0 THEN s + sentenceEnd ELSE end
        ELSE end

\* The record pushed for the iteration at cursor s ending at e.
ChunkRecord(t, s, e) ==
    [text |-> Slice(t, s, e), startPosition |-> s, endPosition |-> e]

\* `chunks` after the iteration at cursor s ending at e.
PushChunk(cs, t, s, e) ==
    IF NonBlank(Slice(t, s, e)) THEN Append(cs, ChunkRecord(t, s, e)) ELSE cs

\* NextStart stepping back by twice the overlap.
NextStartTwice(e, ov) == e - 2 * ov

\* The cursor after the iteration ending at e.
NextStart(e, ov) == e - ov

\* The break test at the bottom of the loop.
ChunkBreak(t, s, ov) == s >= Len(t) - ov

\* One evaluation of the while test, followed by the loop body when it holds.
ChunkIter ==
    /\ cpc = "loop"
    /\ iter < MaxIter
    /\ IF start < Len(text)
       THEN LET e == ChunkEnd(text, start, chunkSize)
                s == NextStart(e, overlap)
            IN  /\ chunks' = PushChunk(chunks, text, start, e)
                /\ start' = s
                /\ iter' = iter + 1
                /\ cpc' = IF ChunkBreak(text, s, overlap) THEN "done" ELSE "loop"
       ELSE /\ cpc' = "done"
            /\ UNCHANGED <<chunks, start, iter>>
    /\ UNCHANGED <<text, chunkSize, overlap, intentVars, searchVars, frontVars>>

----------------------------------------------------------------------------
\* The set-intent handler: embeddings, ranking and selection.

\* The request slots: a slot holds one run of the handler with the callbacks
\* it started. There is a slot for every request the client sends.
ReqNames == <<"r1", "r2", "r3", "r4", "r5", "r6">>
Reqs == { ReqNames[i] : i \in 1 .. MaxRuns }

\* chunk.embedding of a chunk that has none (null).
NoVec == 0
\* Embedding vectors are named 1..6; QueryVec names the embedding of the intent.
Vectors == 1 .. 6
QueryVec == 7

\* Similarities are kept in tenths: 9 stands for 0.9.
CosToQuery == <<9, 5, 3, 2, 1, -5>>

\* cosineSimilarity(a, b), in tenths.
cosineSimilarity(a, b) ==
    IF a = b THEN 10
    ELSE IF b = QueryVec THEN CosToQuery[a]
    ELSE IF a = QueryVec THEN CosToQuery[b]
    ELSE 0

validLevels == <<"quick", "standard", "thorough", "exhaustive">>

\* The value of req.body.thoroughness when the field is absent.
Undefined == "undefined"

\* ValidateLevel with "exhaustive" as the fallback.
ValidateLevelLax(thoroughness) ==
    IF \E i \in 1 .. Len(validLevels) : validLevels[i] = thoroughness
    THEN thoroughness ELSE "exhaustive"

\* const level, from req.body.thoroughness (defaulted to 'standard' when absent).
ValidateLevel(thoroughness) ==
    LET given == IF thoroughness = Undefined THEN "standard" ELSE thoroughness
    IN  IF \E i \in 1 .. Len(validLevels) : validLevels[i] = given
        THEN given ELSE "standard"

\* getMaxChunksForLevel; NoLimit stands for "the whole document".
NoLimit == -1
getMaxChunksForLevel(lv) ==
    CASE lv = "quick" -> 10
      [] lv = "standard" -> 30
      [] lv = "thorough" -> 100
      [] lv = "exhaustive" -> NoLimit

\* minSimilarity with the floor of exhaustive raised above the others.
minSimilarityRaised(lv) == IF lv = "exhaustive" THEN 5 ELSE 3

\* const minSimilarity, in tenths.
minSimilarity(lv) == IF lv = "exhaustive" THEN 1 ELSE 3

\* The comparator of rankedChunks.sort: negative when a sorts before b.
CompareAscending(a, b) == a.similarity - b.similarity
CompareSimilarity(a, b) == b.similarity - a.similarity

\* Array.prototype.sort, which is stable: an element is preceded by the
\* elements the comparator puts before it and by the earlier elements the
\* comparator ties with it.
SortBySimilarity(xs) ==
    LET n == Len(xs)
        posOf == [i \in 1 .. n |->
                    Cardinality({ j \in 1 .. n : CompareSimilarity(xs[j], xs[i]) < 0 })
                    + Cardinality({ j \in 1 .. i - 1 :
                                      CompareSimilarity(xs[j], xs[i]) = 0 })
                    + 1]
    IN  [p \in 1 .. n |-> xs[CHOOSE i \in 1 .. n : posOf[i] = p]]

\* const rankedChunks: embs[c] is chunksWithEmbeddings[c].embedding.
RankChunks(embs, intentEmbedding) ==
    SortBySimilarity(
        [c \in 1 .. Len(embs) |->
            [chunk |-> c,
             similarity |-> cosineSimilarity(embs[c], intentEmbedding)]])

\* Array.prototype.filter(({ similarity }) => similarity >= floor)
FilterMin(xs, floor) == SelectSeq(xs, LAMBDA x : x.similarity >= floor)

\* Array.prototype.slice(0, max)
SliceTo(xs, max) ==
    IF max = NoLimit THEN xs ELSE SubSeq(xs, 1, Min(max, Len(xs)))

\* SelectTop with the filter's >= written as >.
SelectTopStrict(rankedChunks, lv) ==
    LET kept == SliceTo(SelectSeq(rankedChunks,
                          LAMBDA x : x.similarity > minSimilarity(lv)),
                        getMaxChunksForLevel(lv))
    IN  [i \in 1 .. Len(kept) |-> kept[i].chunk]

\* const topChunks of level lv: the ids of the chunks kept.
SelectTop(rankedChunks, lv) ==
    LET kept == SliceTo(FilterMin(rankedChunks, minSimilarity(lv)),
                        getMaxChunksForLevel(lv))
    IN  [i \in 1 .. Len(kept) |-> kept[i].chunk]

----------------------------------------------------------------------------
\* The set-intent handler: one action per stretch of code between two awaits.

ChunkIds == 1 .. nChunks

Intents == {"q", ""}
Thoroughness == {"quick", "standard", "thorough", "exhaustive", "bogus", Undefined}
DocIds == {"d1", "nodoc"}

\* res.status(status).json(...): the handler is finished with the request.
Respond(r, status, cause) ==
    /\ responses' = Append(responses, [run |-> run[r], status |-> status, cause |-> cause])
    /\ rpc' = [rpc EXCEPT ![r] = "responded"]

\* No callback of the request of the slot is still running.
Quiet(r) == \A c \in DOMAIN task[r] : task[r][c] \notin {"calling", "writing"}

\* Nothing of a request is left in the slot.
Free(r) == rpc[r] = "idle" \/ (rpc[r] = "responded" /\ Quiet(r))

\* The slot that holds the next request: the first free one. A request that
\* was answered while callbacks of its chunks.map are in flight keeps its slot
\* until they have run.
NextSlot ==
    ReqNames[CHOOSE i \in 1 .. MaxRuns :
                /\ Free(ReqNames[i])
                /\ \A j \in 1 .. i - 1 : ~Free(ReqNames[j])]

\* The request arrives, whatever callbacks of earlier requests are in flight;
\* the intent is checked and the level validated, then storage.getDocument is
\* awaited. A client that waits sends it once its earlier requests are
\* answered.
Receive(r) ==
    /\ runsLeft > 0
    /\ r = NextSlot
    /\ clientWaits => \A s \in Reqs : rpc[s] \in {"idle", "responded"}
    /\ runsLeft' = runsLeft - 1
    /\ nextRun' = nextRun + 1
    /\ run' = [run EXCEPT ![r] = nextRun]
    /\ \E d \in DocIds, q \in Intents, th \in Thoroughness :
          /\ req' = [req EXCEPT ![r] = [docId |-> d, intent |-> q, thoroughness |-> th]]
          /\ level' = [level EXCEPT ![r] = ValidateLevel(th)]
          /\ IF q = ""
             THEN /\ responses' = Append(responses,
                                      [run |-> nextRun, status |-> 400, cause |-> "intent"])
                  /\ rpc' = [rpc EXCEPT ![r] = "responded"]
             ELSE /\ rpc' = [rpc EXCEPT ![r] = "getDocument"]
                  /\ UNCHANGED responses
    /\ snap' = [snap EXCEPT ![r] = << >>]
    /\ task' = [task EXCEPT ![r] = << >>]
    /\ got' = [got EXCEPT ![r] = << >>]
    /\ embedCalls' = [embedCalls EXCEPT ![r] = [c \in ChunkIds |-> 0]]
    /\ embedWrites' = [embedWrites EXCEPT ![r] = [c \in ChunkIds |-> 0]]
    /\ ranked' = [ranked EXCEPT ![r] = << >>]
    /\ top' = [top EXCEPT ![r] = << >>]
    /\ annSnap' = [annSnap EXCEPT ![r] = << >>]
    /\ todo' = [todo EXCEPT ![r] = << >>]
    /\ annBefore' = [annBefore EXCEPT ![r] = annotations]
    /\ UNCHANGED <<frontVars, chunkVars, searchVars, editVars, worldVars, dbVars>>

\* storage.getDocument resolves: 404, or storage.updateDocument is awaited.
GetDocument(r) ==
    /\ rpc[r] = "getDocument"
    /\ IF req[r].docId # "d1"
       THEN Respond(r, 404, "document")
       ELSE /\ rpc' = [rpc EXCEPT ![r] = "updateDocument"]
            /\ UNCHANGED responses
    /\ UNCHANGED <<frontVars, chunkVars, searchVars, editVars, annBefore,
                   worldVars, dbVars, runsLeft, nextRun, req, run, level, snap,
                   task, got, embedCalls, embedWrites, ranked, top, annSnap, todo>>

\* storage.updateDocument resolves; storage.getChunksForDocument is awaited.
UpdateDocument(r) ==
    /\ rpc[r] = "updateDocument"
    /\ userIntent' = req[r].intent
    /\ rpc' = [rpc EXCEPT ![r] = "getChunks"]
    /\ UNCHANGED <<frontVars, chunkVars, searchVars, editVars, annBefore,
                   worldVars, stored, annotations, clientVars, req, run, level,
                   snap, task, got, embedCalls, embedWrites, ranked, top,
                   annSnap, todo>>

\* storage.getChunksForDocument resolves: 400 without chunks, or
\* getEmbedding(intent) is awaited.
GetChunks(r) ==
    /\ rpc[r] = "getChunks"
    /\ snap' = [snap EXCEPT ![r] = stored]
    /\ IF nChunks = 0
       THEN Respond(r, 400, "nochunks")
       ELSE /\ rpc' = [rpc EXCEPT ![r] = "embedIntent"]
            /\ UNCHANGED responses
    /\ UNCHANGED <<frontVars, chunkVars, searchVars, editVars, annBefore,
                   worldVars, dbVars, runsLeft, nextRun, req, run, level, task,
                   got, embedCalls, embedWrites, ranked, top, annSnap, todo>>

\* The callback of chunks.map for chunk c, up to its first await.
NeedsEmbeddingAlways(r, c) == TRUE
NeedsEmbedding(r, c) == snap[r][c] = NoVec

\* getEmbedding(intent) resolves; chunks.map starts every callback: a chunk
\* without embedding has getEmbedding(chunk.text) called; Promise.all is awaited.
IntentEmbedded(r) ==
    /\ rpc[r] = "embedIntent"
    /\ task' = [task EXCEPT ![r] =
                  [c \in ChunkIds |-> IF NeedsEmbedding(r, c) THEN "calling" ELSE "cached"]]
    /\ got' = [got EXCEPT ![r] = snap[r]]
    /\ embedCalls' = [embedCalls EXCEPT ![r] =
                  [c \in ChunkIds |-> IF NeedsEmbedding(r, c) THEN 1 ELSE 0]]
    /\ rpc' = [rpc EXCEPT ![r] = "embedChunks"]
    /\ UNCHANGED <<frontVars, chunkVars, searchVars, editVars, annBefore,
                   worldVars, dbVars, clientVars, req, run, level, snap,
                   embedWrites, ranked, top, annSnap, todo>>

\* getEmbedding(intent) rejects: the catch block answers 500.
IntentEmbedFails(r) ==
    /\ rpc[r] = "embedIntent"
    /\ mayFail
    /\ Respond(r, 500, "embedding")
    /\ UNCHANGED <<frontVars, chunkVars, searchVars, editVars, annBefore,
                   worldVars, dbVars, runsLeft, nextRun, req, run, level, snap,
                   task, got, embedCalls, embedWrites, ranked, top, annSnap, todo>>

\* getEmbedding(chunk.text) resolves for chunk c; the callback awaits
\* storage.updateChunkEmbedding.
ChunkEmbedded(r, c) ==
    /\ c \in DOMAIN task[r]
    /\ task[r][c] = "calling"
    /\ got' = [got EXCEPT ![r][c] = embOf[c]]
    /\ task' = [task EXCEPT ![r][c] = "writing"]
    /\ UNCHANGED <<frontVars, chunkVars, searchVars, editVars, annBefore,
                   worldVars, dbVars, clientVars, rpc, req, run, level, snap,
                   embedCalls, embedWrites, ranked, top, annSnap, todo>>

\* ChunkEmbedFails with the rejection swallowed: the callback carries on with
\* a vector the provider never returned.
ChunkEmbedFailsFabricates(r, c) ==
    /\ c \in DOMAIN task[r]
    /\ task[r][c] = "calling"
    /\ mayFail
    /\ got' = [got EXCEPT ![r][c] = QueryVec]
    /\ task' = [task EXCEPT ![r][c] = "writing"]
    /\ UNCHANGED <<frontVars, chunkVars, searchVars, editVars, annBefore,
                   worldVars, dbVars, clientVars, rpc, req, run, level, snap,
                   embedCalls, embedWrites, ranked, top, annSnap, todo>>

\* getEmbedding(chunk.text) rejects for chunk c: Promise.all rejects with the
\* first rejection and the catch block answers 500; the other callbacks go on.
ChunkEmbedFails(r, c) ==
    /\ c \in DOMAIN task[r]
    /\ task[r][c] = "calling"
    /\ mayFail
    /\ task' = [task EXCEPT ![r][c] = "failed"]
    /\ IF rpc[r] = "embedChunks"
       THEN Respond(r, 500, "embedding")
       ELSE UNCHANGED <<rpc, responses>>
    /\ UNCHANGED <<frontVars, chunkVars, searchVars, editVars, annBefore,
                   worldVars, dbVars, runsLeft, nextRun, req, run, level, snap,
                   got, embedCalls, embedWrites, ranked, top, annSnap, todo>>

\* storage.updateChunkEmbedding resolves for chunk c: the callback returns.
ChunkWritten(r, c) ==
    /\ c \in DOMAIN task[r]
    /\ task[r][c] = "writing"
    /\ stored' = [stored EXCEPT ![c] = got[r][c]]
    /\ embedWrites' = [embedWrites EXCEPT ![r][c] = @ + 1]
    /\ task' = [task EXCEPT ![r][c] = "done"]
    /\ UNCHANGED <<frontVars, chunkVars, searchVars, editVars, annBefore,
                   worldVars, userIntent, annotations, clientVars, rpc, req, run,
                   level, snap, got, embedCalls, ranked, top, annSnap, todo>>

\* Promise.all resolves: the chunks are ranked and selected; an empty
\* selection answers [], otherwise storage.getAnnotationsForDocument is awaited.
Rank(r) ==
    /\ rpc[r] = "embedChunks"
    /\ \A c \in ChunkIds : task[r][c] \in {"cached", "done"}
    /\ LET rankedChunks == RankChunks(got[r], QueryVec)
           topChunks    == SelectTop(rankedChunks, level[r])
       IN  /\ ranked' = [ranked EXCEPT ![r] = rankedChunks]
           /\ top' = [top EXCEPT ![r] = topChunks]
           /\ IF Len(topChunks) = 0
              THEN Respond(r, 200, "empty")
              ELSE /\ rpc' = [rpc EXCEPT ![r] = "getAnnotations"]
                   /\ UNCHANGED responses
    /\ UNCHANGED <<frontVars, chunkVars, searchVars, editVars, annBefore,
                   worldVars, dbVars, runsLeft, nextRun, req, run, level, snap,
                   task, got, embedCalls, embedWrites, annSnap, todo>>

\* storage.getAnnotationsForDocument resolves: the user annotations are kept
\* for the pipeline and the AI annotations are deleted one await at a time;
\* with none to delete, processChunksWithPipelineV2 is awaited.
GetAnnotations(r) ==
    /\ rpc[r] = "getAnnotations"
    /\ annSnap' = [annSnap EXCEPT ![r] = annotations]
    /\ LET aiAnnotations == SelectSeq(annotations, LAMBDA a : a.isAiGenerated)
       IN  /\ todo' = [todo EXCEPT ![r] = aiAnnotations]
           /\ rpc' = [rpc EXCEPT ![r] =
                        IF aiAnnotations = << >> THEN "pipeline" ELSE "deleteAi"]
    /\ UNCHANGED <<frontVars, chunkVars, searchVars, editVars, annBefore,
                   worldVars, dbVars, clientVars, req, run, level, snap, task,
                   got, embedCalls, embedWrites, ranked, top>>

\* storage.deleteAnnotation(ann.id) resolves for the next AI annotation.
DeleteAi(r) ==
    /\ rpc[r] = "deleteAi"
    /\ annotations' = SelectSeq(annotations, LAMBDA a : a # Head(todo[r]))
    /\ todo' = [todo EXCEPT ![r] = Tail(todo[r])]
    /\ rpc' = [rpc EXCEPT ![r] =
                 IF Tail(todo[r]) = << >> THEN "pipeline" ELSE "deleteAi"]
    /\ UNCHANGED <<frontVars, chunkVars, searchVars, editVars, annBefore,
                   worldVars, stored, userIntent, clientVars, req, run, level,
                   snap, task, got, embedCalls, embedWrites, ranked, top, annSnap>>

\* processChunksWithPipelineV2 resolves with k annotations; the cache is
\* cleared and storage.createAnnotation is awaited for the first of them.
PipelineReturns(r) ==
    /\ rpc[r] = "pipeline"
    /\ \E k \in 0 .. MaxPipelineAnns :
          LET pipelineAnnotations ==
                  [i \in 1 .. k |-> [by |-> run[r], k |-> i, isAiGenerated |-> TRUE]]
          IN  /\ todo' = [todo EXCEPT ![r] = pipelineAnnotations]
              /\ rpc' = [rpc EXCEPT ![r] =
                           IF k = 0 THEN "finalGet" ELSE "createAnnotation"]
    /\ UNCHANGED <<frontVars, chunkVars, searchVars, editVars, annBefore,
                   worldVars, dbVars, clientVars, req, run, level, snap, task,
                   got, embedCalls, embedWrites, ranked, top, annSnap>>

\* processChunksWithPipelineV2 rejects: the catch block answers 500.
PipelineFails(r) ==
    /\ rpc[r] = "pipeline"
    /\ mayFail
    /\ Respond(r, 500, "pipeline")
    /\ UNCHANGED <<frontVars, chunkVars, searchVars, editVars, annBefore,
                   worldVars, dbVars, runsLeft, nextRun, req, run, level, snap,
                   task, got, embedCalls, embedWrites, ranked, top, annSnap, todo>>

\* storage.createAnnotation resolves for the next pipeline annotation.
CreateAnnotation(r) ==
    /\ rpc[r] = "createAnnotation"
    /\ annotations' = Append(annotations, Head(todo[r]))
    /\ todo' = [todo EXCEPT ![r] = Tail(todo[r])]
    /\ rpc' = [rpc EXCEPT ![r] =
                 IF Tail(todo[r]) = << >> THEN "finalGet" ELSE "createAnnotation"]
    /\ UNCHANGED <<frontVars, chunkVars, searchVars, editVars, annBefore,
                   worldVars, stored, userIntent, clientVars, req, run, level,
                   snap, task, got, embedCalls, embedWrites, ranked, top, annSnap>>

\* The final storage.getAnnotationsForDocument resolves: res.json(...).
FinalGet(r) ==
    /\ rpc[r] = "finalGet"
    /\ Respond(r, 200, "ok")
    /\ UNCHANGED <<frontVars, chunkVars, searchVars, editVars, annBefore,
                   worldVars, dbVars, runsLeft, nextRun, req, run, level, snap,
                   task, got, embedCalls, embedWrites, ranked, top, annSnap, todo>>

\* No request to the annotation routes.
\* The id of no annotation.
NoAnnotation == [by |-> -2, k |-> 0, isAiGenerated |-> FALSE]

\* req.body.isAiGenerated: absent, or a boolean.
AiFlags ==
    { [given |-> FALSE, value |-> FALSE], [given |-> TRUE, value |-> FALSE],
      [given |-> TRUE, value |-> TRUE] }

NoEdit ==
    [route |-> "", docId |-> "", isAiGenerated |-> [given |-> FALSE, value |-> FALSE],
     target |-> NoAnnotation]

\* isAiGenerated || false
OrFalse(v) == IF v.given THEN v.value ELSE FALSE

\* The row storage.createAnnotation stores for the annotate route: the k-th
\* annotation made by the client.
ClientAnnotation(k, ai) == [by |-> -1, k |-> k, isAiGenerated |-> ai]

\* The ids DELETE /api/annotations/:id is called with: the position of a row
\* among the rows stored, or 0 for an id that no row has.
DeleteTargets == 0 .. Len(annotations)

\* res.status(status).json(...) of the annotation routes.
EditEnds(status) ==
    /\ eresp' = Append(eresp, status)
    /\ epc' = "idle"

\* POST /api/documents/:id/annotate arrives: 400 when a required field is
\* missing, otherwise storage.getDocument is awaited.
AnnotateReceive ==
    /\ epc = "idle"
    /\ editsLeft > 0
    /\ editsLeft' = editsLeft - 1
    /\ \E d \in DocIds, complete \in BOOLEAN, ai \in AiFlags :
          /\ ereq' = [route |-> "annotate", docId |-> d, isAiGenerated |-> ai,
                      target |-> NoAnnotation]
          /\ IF ~complete
             THEN EditEnds(400)
             ELSE epc' = "getDocument" /\ UNCHANGED eresp
    /\ UNCHANGED <<frontVars, chunkVars, searchVars, worldVars, dbVars, clientVars,
                   reqVars>>

\* storage.getDocument resolves: 404, or storage.createAnnotation is awaited.
AnnotateGetDocument ==
    /\ epc = "getDocument"
    /\ IF ereq.docId # "d1"
       THEN EditEnds(404)
       ELSE epc' = "createAnnotation" /\ UNCHANGED eresp
    /\ UNCHANGED <<frontVars, chunkVars, searchVars, worldVars, dbVars, clientVars,
                   reqVars, ereq, editsLeft>>

\* storage.createAnnotation resolves: the row is stored; res.json(annotation).
AnnotateCreated ==
    /\ epc = "createAnnotation"
    /\ annotations' =
          Append(annotations,
                 ClientAnnotation(Len(eresp) + 1, OrFalse(ereq.isAiGenerated)))
    /\ EditEnds(200)
    /\ UNCHANGED <<frontVars, chunkVars, searchVars, worldVars, stored, userIntent,
                   clientVars, reqVars, ereq, editsLeft>>

\* DELETE /api/annotations/:id arrives: storage.deleteAnnotation is awaited.
DeleteReceive ==
    /\ epc = "idle"
    /\ editsLeft > 0
    /\ editsLeft' = editsLeft - 1
    /\ \E i \in DeleteTargets :
          ereq' = [route |-> "delete", docId |-> "",
                   isAiGenerated |-> [given |-> FALSE, value |-> FALSE],
                   target |-> IF i = 0 THEN NoAnnotation ELSE annotations[i]]
    /\ epc' = "deleteAnnotation"
    /\ UNCHANGED <<frontVars, chunkVars, searchVars, worldVars, dbVars, clientVars,
                   reqVars, eresp>>

\* storage.deleteAnnotation resolves: the row of that id, user-made or not, is
\* gone; res.json({ success: true }).
DeleteDone ==
    /\ epc = "deleteAnnotation"
    /\ annotations' = SelectSeq(annotations, LAMBDA a : a # ereq.target)
    /\ EditEnds(200)
    /\ UNCHANGED <<frontVars, chunkVars, searchVars, worldVars, stored, userIntent,
                   clientVars, reqVars, ereq, editsLeft>>

\* No request is sent to the annotation routes.
EditOff == epc = "idle" /\ ereq = NoEdit /\ editsLeft = 0 /\ eresp = << >>

\* No slot serves a set-intent request.
SlotsOff ==
    /\ rpc = [r \in Reqs |-> "off"]
    /\ req = [r \in Reqs |-> [docId |-> "", intent |-> "", thoroughness |-> ""]]
    /\ run = [r \in Reqs |-> 0]
    /\ level = [r \in Reqs |-> "standard"]
    /\ snap = [r \in Reqs |-> << >>]
    /\ task = [r \in Reqs |-> << >>]
    /\ got = [r \in Reqs |-> << >>]
    /\ embedCalls = [r \in Reqs |-> << >>]
    /\ embedWrites = [r \in Reqs |-> << >>]
    /\ ranked = [r \in Reqs |-> << >>]
    /\ top = [r \in Reqs |-> << >>]
    /\ annSnap = [r \in Reqs |-> << >>]
    /\ todo = [r \in Reqs |-> << >>]
    /\ annBefore = [r \in Reqs |-> << >>]

\* No set-intent request is modelled.
IntentOff ==
    /\ nChunks = 0 /\ embOf = << >> /\ stored = << >> /\ userIntent = ""
    /\ annotations = << >> /\ mayFail = FALSE /\ clientWaits = TRUE
    /\ runsLeft = 0 /\ nextRun = 1
    /\ responses = << >>
    /\ EditOff
    /\ SlotsOff

\* No chunkText call is modelled.
ChunkOff ==
    /\ text = << >> /\ chunkSize = DefaultChunkSize /\ overlap = DefaultOverlap
    /\ start = 0 /\ chunks = << >> /\ iter = 0 /\ cpc = "off"

\* No textMatchScore call is modelled.
LexOff == candidate = << >> /\ score = DoubleZero /\ lpc = "off"

\* The value of gresp before globalSearch returns.
NoResponse == [results |-> << >>, totalResults |-> -1]

\* The filters argument when it is not given.
NoFilters ==
    [categories  |-> [given |-> FALSE, ids |-> {}],
     folderIds   |-> [given |-> FALSE, ids |-> {}],
     documentIds |-> [given |-> FALSE, ids |-> {}]]

\* No globalSearch call is modelled.
GlobalOff ==
    /\ gdb = [project |-> << >>, folders |-> << >>, projectDocs |-> << >>,
              annotations |-> << >>]
    /\ projectId = "" /\ filters = NoFilters
    /\ limit = [given |-> FALSE, value |-> 0]
    /\ results = << >> /\ gresp = NoResponse /\ gpc = "off"

\* No single-document search is modelled.
DocSearchOff ==
    /\ svia = "" /\ sdoc = "" /\ schunks = << >> /\ sranked = << >>
    /\ handed = << >> /\ sresp = "none" /\ spc = "off"

\* No search is modelled.
SearchOff == query = << >> /\ LexOff /\ GlobalOff /\ DocSearchOff

\* No isGarbledText call is modelled.
GarbleOff == gtext = << >> /\ garbled = FALSE /\ gtpc = "off"

\* req.file when no file was uploaded.
NoFile == [present |-> FALSE, mimetype |-> "", ext |-> "", content |-> << >>]

\* The value of uresp before the handler has answered.
NoUploadResponse == [status |-> 0, cause |-> ""]

\* No upload is modelled.
UploadOff ==
    /\ file = NoFile /\ fullText = << >> /\ documents = << >>
    /\ chunkRows = << >> /\ pending = << >> /\ summaryTask = "none"
    /\ mayThrow = FALSE /\ uresp = NoUploadResponse /\ upc = "off"

\* No SearchPanel is modelled.
PanelOff ==
    /\ panelDocumentId = "" /\ panelQuery = << >> /\ panelResults = << >>
    /\ isSearching = FALSE /\ showAllResults = FALSE /\ calls = << >>
    /\ submits = 0

\* Neither the upload route nor the SearchPanel is modelled.
FrontOff == GarbleOff /\ UploadOff /\ PanelOff

----------------------------------------------------------------------------
\* Inputs of chunkText.

Alphabet == {"a", " ", ".", "!"}

RECURSIVE Strings(_)
Strings(n) ==
    IF n = 0 THEN { << >> }
    ELSE LET S == Strings(n - 1)
         IN  S \cup { Append(s, c) : s \in { x \in S : Len(x) = n - 1 }, c \in Alphabet }

SmallTexts == Strings(MaxLen)

\* Short texts with white space other than the blank: a form feed, a
\* no-break space.
OtherSpaceTexts ==
    { t \in UNION { [1 .. n -> {"a", ".", "\f", "u00A0"}] : n \in 1 .. 3 } :
        \E i \in 1 .. Len(t) : t[i] \in {"\f", "u00A0"} }

\* A text of n characters: the letter a, except that the positions of
\* [blankFrom, blankTo) are spaces, and ". " stands at p1 and "! " at p2 when
\* these lie outside the blank range (a negative position places nothing).
PatternText(n, p1, p2, blankFrom, blankTo) ==
    [ i \in 1 .. n |->
        LET pos == i - 1
        IN  IF pos >= blankFrom /\ pos < blankTo THEN " "
            ELSE IF p1 >= 0 /\ pos = p1 THEN "."
            ELSE IF p1 >= 0 /\ pos = p1 + 1 THEN " "
            ELSE IF p2 >= 0 /\ pos = p2 THEN "!"
            ELSE IF p2 >= 0 /\ pos = p2 + 1 THEN " "
            ELSE "a" ]

\* The 1200-character documents of the end-to-end scenario.
ScenarioBlanks ==
    { <<0, 0>>, <<0, 1200>>, <<0, 600>>, <<400, 1000>>, <<1004, 1200>>,
      <<1005, 1200>> }
ScenarioTexts ==
    { PatternText(1200, p1, p2, b[1], b[2]) :
        p1 \in {-2, 449, 450, 500, 550, 551},
        p2 \in {-2, 480, 902, 1052},
        b \in ScenarioBlanks }

\* Texts long enough for the window of findSentenceEnd to exclude positions,
\* chunked with sizes a little above the window's half-width.
WindowTexts ==
    { PatternText(100, p1, p2, b[1], b[2]) :
        p1 \in {-2, 5, 9, 10, 40, 70},
        p2 \in {-2, 8, 12, 58, 90},
        b \in { <<0, 0>>, <<0, 30>> } }
WindowParams == { <<60, 20>>, <<60, 55>>, <<60, 60>>, <<52, 51>> }

\* Texts of 135 characters with ". " near both ends, chunked with (60, 30):
\* a sentence end found early in the first window brings the cursor below 0.
BackwardTexts ==
    { [ i \in 1 .. 135 |->
          IF i - 1 \in {p1, p2} THEN "."
          ELSE IF i - 1 \in {p1 + 1, p2 + 1} THEN " "
          ELSE "a" ] :
        p1 \in {-2, 10, 40}, p2 \in {-2, 100, 131} }

InitChunk ==
    /\ \/ /\ text \in SmallTexts \cup OtherSpaceTexts
          /\ chunkSize \in 1 .. MaxSmallSize
          /\ overlap \in 0 .. MaxSmallSize
       \/ /\ text \in WindowTexts
          /\ \E p \in WindowParams : chunkSize = p[1] /\ overlap = p[2]
       \/ /\ text \in BackwardTexts
          /\ chunkSize = 60
          /\ overlap = 30
       \/ /\ text \in ScenarioTexts
          /\ chunkSize = DefaultChunkSize
          /\ overlap = DefaultOverlap
    /\ start = 0
    /\ chunks = << >>
    /\ iter = 0
    /\ cpc = "loop"
    /\ IntentOff
    /\ SearchOff
    /\ FrontOff

NextChunk == ChunkIter

SpecChunk == InitChunk /\ [][NextChunk]_vars

----------------------------------------------------------------------------
\* Documents and collaborators of the set-intent handler.

\* The vector of chunk c in the long documents: cycling through the vectors,
\* alternating 0.5 and 0.1, or 0.9 throughout.
PatternVec(k, c) ==
    CASE k = 1 -> ((c - 1) % 6) + 1
      [] k = 2 -> IF c % 2 = 0 THEN 5 ELSE 2
      [] k = 3 -> 1

UserAnnotation == [by |-> 0, k |-> 1, isAiGenerated |-> FALSE]
OldAiAnnotation == [by |-> 0, k |-> 2, isAiGenerated |-> TRUE]

\* Documents whose chunks all have their embedding: every assignment of
\* vectors to up to MaxChunks chunks, and documents longer than the limits of
\* the levels.
RankWorlds ==
    { [n |-> Len(e), emb |-> e, stored |-> e, anns |-> << >>,
       mayFail |-> FALSE, runs |-> 1, edits |-> 0] :
         e \in UNION { [1 .. n -> Vectors] : n \in 1 .. MaxChunks } }
    \cup
    { [n |-> n, emb |-> [c \in 1 .. n |-> PatternVec(k, c)],
       stored |-> [c \in 1 .. n |-> PatternVec(k, c)], anns |-> << >>,
       mayFail |-> FALSE, runs |-> 1, edits |-> 0] :
         n \in {12, 35, 105}, k \in 1 .. 3 }

\* A document of n chunks, those of `have` with their embedding stored.
CacheWorld(n, have, a, f, runs) ==
    [n |-> n, emb |-> [c \in 1 .. n |-> <<1, 4, 2, 3>>[c]],
     stored |-> [c \in 1 .. n |-> IF c \in have THEN <<1, 4, 2, 3>>[c] ELSE NoVec],
     anns |-> a, mayFail |-> f, runs |-> runs, edits |-> 0]

\* Documents some of whose chunks have no embedding yet, with annotations
\* already stored, sent several requests one after the other: with
\* collaborators that do not fail; with collaborators that may fail, sent a
\* first and a second request; and one-chunk documents with collaborators
\* that may fail, sent up to MaxRuns requests.
CacheWorlds ==
    { CacheWorld(n, have, a, FALSE, MaxRuns) :
         n \in 0 .. MaxCacheChunks, have \in SUBSET (1 .. MaxCacheChunks),
         a \in { << >>, <<UserAnnotation>>, <<OldAiAnnotation>>,
                 <<UserAnnotation, OldAiAnnotation>> } }
    \cup
    { CacheWorld(n, have, a, TRUE, 2) :
         n \in 0 .. MaxCacheChunks, have \in SUBSET (1 .. MaxCacheChunks),
         a \in { <<OldAiAnnotation>>, <<UserAnnotation, OldAiAnnotation>> } }
    \cup
    { CacheWorld(1, have, <<UserAnnotation, OldAiAnnotation>>, TRUE, MaxRuns) :
         have \in SUBSET {1} }

\* Documents with annotations stored, whose annotations the client also adds
\* and deletes through the annotation routes while a request runs.
EditWorlds ==
    { [n |-> 1, emb |-> <<1>>, stored |-> <<1>>,
       anns |-> <<UserAnnotation, OldAiAnnotation>>, mayFail |-> f, runs |-> 1,
       edits |-> MaxEdits] : f \in BOOLEAN }

\* The state before the first request: the document of world family W, sent
\* requests by a client that waits for each answer (waits) or does not.
InitWorld(W, waits) ==
    /\ ChunkOff
    /\ FrontOff
    /\ SearchOff
    /\ \E w \in W :
          /\ nChunks = w.n
          /\ embOf = w.emb
          /\ stored = w.stored
          /\ annotations = w.anns
          /\ mayFail = w.mayFail
          /\ runsLeft = w.runs
          /\ editsLeft = w.edits
    /\ epc = "idle"
    /\ ereq = NoEdit
    /\ eresp = << >>
    /\ userIntent = ""
    /\ nextRun = 1
    /\ responses = << >>
    /\ clientWaits = waits
    /\ rpc = [r \in Reqs |-> "idle"]
    /\ req = [r \in Reqs |-> [docId |-> "", intent |-> "", thoroughness |-> ""]]
    /\ run = [r \in Reqs |-> 0]
    /\ level = [r \in Reqs |-> "standard"]
    /\ snap = [r \in Reqs |-> << >>]
    /\ task = [r \in Reqs |-> << >>]
    /\ got = [r \in Reqs |-> << >>]
    /\ embedCalls = [r \in Reqs |-> << >>]
    /\ embedWrites = [r \in Reqs |-> << >>]
    /\ ranked = [r \in Reqs |-> << >>]
    /\ top = [r \in Reqs |-> << >>]
    /\ annSnap = [r \in Reqs |-> << >>]
    /\ todo = [r \in Reqs |-> << >>]
    /\ annBefore = [r \in Reqs |-> << >>]

InitIntent == InitWorld(RankWorlds \cup CacheWorlds \cup EditWorlds, TRUE)

NextRequests ==
    \E r \in Reqs :
        \/ Receive(r)
        \/ GetDocument(r)
        \/ UpdateDocument(r)
        \/ GetChunks(r)
        \/ IntentEmbedded(r)
        \/ IntentEmbedFails(r)
        \/ \E c \in ChunkIds : ChunkEmbedded(r, c)
        \/ \E c \in ChunkIds : ChunkEmbedFails(r, c)
        \/ \E c \in ChunkIds : ChunkWritten(r, c)
        \/ Rank(r)
        \/ GetAnnotations(r)
        \/ DeleteAi(r)
        \/ PipelineReturns(r)
        \/ PipelineFails(r)
        \/ CreateAnnotation(r)
        \/ FinalGet(r)

NextEdits ==
    \/ AnnotateReceive
    \/ AnnotateGetDocument
    \/ AnnotateCreated
    \/ DeleteReceive
    \/ DeleteDone

NextIntent == NextRequests \/ NextEdits

SpecIntent == InitIntent /\ [][NextIntent]_vars

\* Documents sent requests that run concurrently: no chunk has its embedding
\* yet, annotations are already stored.
ConcurrentWorlds ==
    { [n |-> n, emb |-> [c \in 1 .. n |-> <<1, 4, 2, 3>>[c]],
       stored |-> [c \in 1 .. n |-> NoVec],
       anns |-> <<UserAnnotation, OldAiAnnotation>>, mayFail |-> f,
       runs |-> MaxRuns, edits |-> 0] :
         n \in 1 .. MaxConcurrentChunks, f \in BOOLEAN }

InitConcurrent == InitWorld(ConcurrentWorlds, FALSE)

SpecConcurrent == InitConcurrent /\ [][NextRequests]_vars

----------------------------------------------------------------------------
\* textMatchScore

\* The characters by code: a code unit below 128 is written as the character
\* it is (the grave accent as "grave"), and any other one, like a control
\* character that has no escape, as "u" and its four hexadecimal digits.
AsciiNames ==
    <<"u0000", "u0001", "u0002", "u0003", "u0004", "u0005", "u0006", "u0007",
     "u0008", "\t", "\n", "u000B", "\f", "\r", "u000E", "u000F", "u0010", "u0011",
     "u0012", "u0013", "u0014", "u0015", "u0016", "u0017", "u0018", "u0019",
     "u001A", "u001B", "u001C", "u001D", "u001E", "u001F", " ", "!", "\"", "#", "$",
     "%", "&", "'", "(", ")", "*", "+", ",", "-", ".", "/", "0", "1", "2", "3", "4",
     "5", "6", "7", "8", "9", ":", ";", "<", "=", ">", "?", "@", "A", "B", "C", "D",
     "E", "F", "G", "H", "I", "J", "K", "L", "M", "N", "O", "P", "Q", "R", "S", "T",
     "U", "V", "W", "X", "Y", "Z", "[", "\\", "]", "^", "_", "grave", "a", "b", "c",
     "d", "e", "f", "g", "h", "i", "j", "k", "l", "m", "n", "o", "p", "q", "r", "s",
     "t", "u", "v", "w", "x", "y", "z", "{", "|", "}", "~", "u007F">>
HexDigits ==
    <<"0", "1", "2", "3", "4", "5", "6", "7", "8", "9", "A", "B", "C", "D", "E", "F">>
CodeUnit(n) ==
    IF n < 128 THEN AsciiNames[n + 1]
    ELSE "u" \o HexDigits[(n \div 4096) + 1] \o HexDigits[((n \div 256) % 16) + 1]
             \o HexDigits[((n \div 16) % 16) + 1] \o HexDigits[(n % 16) + 1]

\* The UTF-16 code units of code point cp: itself, or a surrogate pair.
CodeUnits(cp) ==
    IF cp < 65536 THEN <<CodeUnit(cp)>>
    ELSE <<CodeUnit(55296 + ((cp - 65536) \div 1024)),
           CodeUnit(56320 + ((cp - 65536) % 1024))>>

HighSurrogates == { CodeUnit(n) : n \in 55296 .. 56319 }
LowSurrogates == { CodeUnit(n) : n \in 56320 .. 57343 }

\* The lower-case mapping of the Unicode Character Database, which
\* String.prototype.toLowerCase applies: <<first, last, step, delta>> maps
\* every step-th code point from first to last to the one delta further.
LowerRuns ==
    {<<\h0041, \h005A, 1, 32>>, <<\h00C0, \h00D6, 1, 32>>,
     <<\h00D8, \h00DE, 1, 32>>, <<\h0100, \h012E, 2, 1>>, <<\h0132, \h0136, 2, 1>>,
     <<\h0139, \h0147, 2, 1>>, <<\h014A, \h0176, 2, 1>>,
     <<\h0178, \h0178, 1, -121>>, <<\h0179, \h017D, 2, 1>>,
     <<\h0181, \h0181, 1, 210>>, <<\h0182, \h0184, 2, 1>>,
     <<\h0186, \h0186, 1, 206>>, <<\h0187, \h0187, 1, 1>>,
     <<\h0189, \h018A, 1, 205>>, <<\h018B, \h018B, 1, 1>>,
     <<\h018E, \h018E, 1, 79>>, <<\h018F, \h018F, 1, 202>>,
     <<\h0190, \h0190, 1, 203>>, <<\h0191, \h0191, 1, 1>>,
     <<\h0193, \h0193, 1, 205>>, <<\h0194, \h0194, 1, 207>>,
     <<\h0196, \h0196, 1, 211>>, <<\h0197, \h0197, 1, 209>>,
     <<\h0198, \h0198, 1, 1>>, <<\h019C, \h019C, 1, 211>>,
     <<\h019D, \h019D, 1, 213>>, <<\h019F, \h019F, 1, 214>>,
     <<\h01A0, \h01A4, 2, 1>>, <<\h01A6, \h01A6, 1, 218>>, <<\h01A7, \h01A7, 1, 1>>,
     <<\h01A9, \h01A9, 1, 218>>, <<\h01AC, \h01AC, 1, 1>>,
     <<\h01AE, \h01AE, 1, 218>>, <<\h01AF, \h01AF, 1, 1>>,
     <<\h01B1, \h01B2, 1, 217>>, <<\h01B3, \h01B5, 2, 1>>,
     <<\h01B7, \h01B7, 1, 219>>, <<\h01B8, \h01B8, 1, 1>>, <<\h01BC, \h01BC, 1, 1>>,
     <<\h01C4, \h01C4, 1, 2>>, <<\h01C5, \h01C5, 1, 1>>, <<\h01C7, \h01C7, 1, 2>>,
     <<\h01C8, \h01C8, 1, 1>>, <<\h01CA, \h01CA, 1, 2>>, <<\h01CB, \h01DB, 2, 1>>,
     <<\h01DE, \h01EE, 2, 1>>, <<\h01F1, \h01F1, 1, 2>>, <<\h01F2, \h01F4, 2, 1>>,
     <<\h01F6, \h01F6, 1, -97>>, <<\h01F7, \h01F7, 1, -56>>,
     <<\h01F8, \h021E, 2, 1>>, <<\h0220, \h0220, 1, -130>>,
     <<\h0222, \h0232, 2, 1>>, <<\h023A, \h023A, 1, 10795>>,
     <<\h023B, \h023B, 1, 1>>, <<\h023D, \h023D, 1, -163>>,
     <<\h023E, \h023E, 1, 10792>>, <<\h0241, \h0241, 1, 1>>,
     <<\h0243, \h0243, 1, -195>>, <<\h0244, \h0244, 1, 69>>,
     <<\h0245, \h0245, 1, 71>>, <<\h0246, \h024E, 2, 1>>, <<\h0370, \h0372, 2, 1>>,
     <<\h0376, \h0376, 1, 1>>, <<\h037F, \h037F, 1, 116>>,
     <<\h0386, \h0386, 1, 38>>, <<\h0388, \h038A, 1, 37>>,
     <<\h038C, \h038C, 1, 64>>, <<\h038E, \h038F, 1, 63>>,
     <<\h0391, \h03A1, 1, 32>>, <<\h03A3, \h03AB, 1, 32>>, <<\h03CF, \h03CF, 1, 8>>,
     <<\h03D8, \h03EE, 2, 1>>, <<\h03F4, \h03F4, 1, -60>>, <<\h03F7, \h03F7, 1, 1>>,
     <<\h03F9, \h03F9, 1, -7>>, <<\h03FA, \h03FA, 1, 1>>,
     <<\h03FD, \h03FF, 1, -130>>, <<\h0400, \h040F, 1, 80>>,
     <<\h0410, \h042F, 1, 32>>, <<\h0460, \h0480, 2, 1>>, <<\h048A, \h04BE, 2, 1>>,
     <<\h04C0, \h04C0, 1, 15>>, <<\h04C1, \h04CD, 2, 1>>, <<\h04D0, \h052E, 2, 1>>,
     <<\h0531, \h0556, 1, 48>>, <<\h10A0, \h10C5, 1, 7264>>,
     <<\h10C7, \h10C7, 1, 7264>>, <<\h10CD, \h10CD, 1, 7264>>,
     <<\h13A0, \h13EF, 1, 38864>>, <<\h13F0, \h13F5, 1, 8>>,
     <<\h1C89, \h1C89, 1, 1>>, <<\h1C90, \h1CBA, 1, -3008>>,
     <<\h1CBD, \h1CBF, 1, -3008>>, <<\h1E00, \h1E94, 2, 1>>,
     <<\h1E9E, \h1E9E, 1, -7615>>, <<\h1EA0, \h1EFE, 2, 1>>,
     <<\h1F08, \h1F0F, 1, -8>>, <<\h1F18, \h1F1D, 1, -8>>,
     <<\h1F28, \h1F2F, 1, -8>>, <<\h1F38, \h1F3F, 1, -8>>,
     <<\h1F48, \h1F4D, 1, -8>>, <<\h1F59, \h1F5F, 2, -8>>,
     <<\h1F68, \h1F6F, 1, -8>>, <<\h1F88, \h1F8F, 1, -8>>,
     <<\h1F98, \h1F9F, 1, -8>>, <<\h1FA8, \h1FAF, 1, -8>>,
     <<\h1FB8, \h1FB9, 1, -8>>, <<\h1FBA, \h1FBB, 1, -74>>,
     <<\h1FBC, \h1FBC, 1, -9>>, <<\h1FC8, \h1FCB, 1, -86>>,
     <<\h1FCC, \h1FCC, 1, -9>>, <<\h1FD8, \h1FD9, 1, -8>>,
     <<\h1FDA, \h1FDB, 1, -100>>, <<\h1FE8, \h1FE9, 1, -8>>,
     <<\h1FEA, \h1FEB, 1, -112>>, <<\h1FEC, \h1FEC, 1, -7>>,
     <<\h1FF8, \h1FF9, 1, -128>>, <<\h1FFA, \h1FFB, 1, -126>>,
     <<\h1FFC, \h1FFC, 1, -9>>, <<\h2126, \h2126, 1, -7517>>,
     <<\h212A, \h212A, 1, -8383>>, <<\h212B, \h212B, 1, -8262>>,
     <<\h2132, \h2132, 1, 28>>, <<\h2160, \h216F, 1, 16>>, <<\h2183, \h2183, 1, 1>>,
     <<\h24B6, \h24CF, 1, 26>>, <<\h2C00, \h2C2F, 1, 48>>, <<\h2C60, \h2C60, 1, 1>>,
     <<\h2C62, \h2C62, 1, -10743>>, <<\h2C63, \h2C63, 1, -3814>>,
     <<\h2C64, \h2C64, 1, -10727>>, <<\h2C67, \h2C6B, 2, 1>>,
     <<\h2C6D, \h2C6D, 1, -10780>>, <<\h2C6E, \h2C6E, 1, -10749>>,
     <<\h2C6F, \h2C6F, 1, -10783>>, <<\h2C70, \h2C70, 1, -10782>>,
     <<\h2C72, \h2C72, 1, 1>>, <<\h2C75, \h2C75, 1, 1>>,
     <<\h2C7E, \h2C7F, 1, -10815>>, <<\h2C80, \h2CE2, 2, 1>>,
     <<\h2CEB, \h2CED, 2, 1>>, <<\h2CF2, \h2CF2, 1, 1>>, <<\hA640, \hA66C, 2, 1>>,
     <<\hA680, \hA69A, 2, 1>>, <<\hA722, \hA72E, 2, 1>>, <<\hA732, \hA76E, 2, 1>>,
     <<\hA779, \hA77B, 2, 1>>, <<\hA77D, \hA77D, 1, -35332>>,
     <<\hA77E, \hA786, 2, 1>>, <<\hA78B, \hA78B, 1, 1>>,
     <<\hA78D, \hA78D, 1, -42280>>, <<\hA790, \hA792, 2, 1>>,
     <<\hA796, \hA7A8, 2, 1>>, <<\hA7AA, \hA7AA, 1, -42308>>,
     <<\hA7AB, \hA7AB, 1, -42319>>, <<\hA7AC, \hA7AC, 1, -42315>>,
     <<\hA7AD, \hA7AD, 1, -42305>>, <<\hA7AE, \hA7AE, 1, -42308>>,
     <<\hA7B0, \hA7B0, 1, -42258>>, <<\hA7B1, \hA7B1, 1, -42282>>,
     <<\hA7B2, \hA7B2, 1, -42261>>, <<\hA7B3, \hA7B3, 1, 928>>,
     <<\hA7B4, \hA7C2, 2, 1>>, <<\hA7C4, \hA7C4, 1, -48>>,
     <<\hA7C5, \hA7C5, 1, -42307>>, <<\hA7C6, \hA7C6, 1, -35384>>,
     <<\hA7C7, \hA7C9, 2, 1>>, <<\hA7CB, \hA7CB, 1, -42343>>,
     <<\hA7CC, \hA7DA, 2, 1>>, <<\hA7DC, \hA7DC, 1, -42561>>,
     <<\hA7F5, \hA7F5, 1, 1>>, <<\hFF21, \hFF3A, 1, 32>>,
     <<\h10400, \h10427, 1, 40>>, <<\h104B0, \h104D3, 1, 40>>,
     <<\h10570, \h1057A, 1, 39>>, <<\h1057C, \h1058A, 1, 39>>,
     <<\h1058C, \h10592, 1, 39>>, <<\h10594, \h10595, 1, 39>>,
     <<\h10C80, \h10CB2, 1, 64>>, <<\h10D50, \h10D65, 1, 32>>,
     <<\h118A0, \h118BF, 1, 32>>, <<\h16E40, \h16E5F, 1, 32>>,
     <<\h16EA0, \h16EB8, 1, 27>>, <<\h1E900, \h1E921, 1, 34>>}

\* The code points toLowerCase takes for cased letters, and the ones it skips
\* (Case_Ignorable), when it looks for the letters around a capital sigma;
\* a code point that is both counts as skipped.
CasedRanges ==
    {<<\h0041, \h005A>>, <<\h0061, \h007A>>, <<\h00AA, \h00AA>>, <<\h00B5, \h00B5>>,
     <<\h00BA, \h00BA>>, <<\h00C0, \h00D6>>, <<\h00D8, \h00F6>>, <<\h00F8, \h01BA>>,
     <<\h01BC, \h01BF>>, <<\h01C4, \h0293>>, <<\h0296, \h02AF>>, <<\h0370, \h0373>>,
     <<\h0376, \h0377>>, <<\h037B, \h037D>>, <<\h037F, \h037F>>, <<\h0386, \h0386>>,
     <<\h0388, \h038A>>, <<\h038C, \h038C>>, <<\h038E, \h03A1>>, <<\h03A3, \h03F5>>,
     <<\h03F7, \h0481>>, <<\h048A, \h052F>>, <<\h0531, \h0556>>, <<\h0560, \h0588>>,
     <<\h10A0, \h10C5>>, <<\h10C7, \h10C7>>, <<\h10CD, \h10CD>>, <<\h10D0, \h10FA>>,
     <<\h10FD, \h10FF>>, <<\h13A0, \h13F5>>, <<\h13F8, \h13FD>>, <<\h1C80, \h1C8A>>,
     <<\h1C90, \h1CBA>>, <<\h1CBD, \h1CBF>>, <<\h1D00, \h1D2B>>, <<\h1D6B, \h1D77>>,
     <<\h1D79, \h1D9A>>, <<\h1E00, \h1F15>>, <<\h1F18, \h1F1D>>, <<\h1F20, \h1F45>>,
     <<\h1F48, \h1F4D>>, <<\h1F50, \h1F57>>, <<\h1F59, \h1F59>>, <<\h1F5B, \h1F5B>>,
     <<\h1F5D, \h1F5D>>, <<\h1F5F, \h1F7D>>, <<\h1F80, \h1FB4>>, <<\h1FB6, \h1FBC>>,
     <<\h1FBE, \h1FBE>>, <<\h1FC2, \h1FC4>>, <<\h1FC6, \h1FCC>>, <<\h1FD0, \h1FD3>>,
     <<\h1FD6, \h1FDB>>, <<\h1FE0, \h1FEC>>, <<\h1FF2, \h1FF4>>, <<\h1FF6, \h1FFC>>,
     <<\h2102, \h2102>>, <<\h2107, \h2107>>, <<\h210A, \h2113>>, <<\h2115, \h2115>>,
     <<\h2119, \h211D>>, <<\h2124, \h2124>>, <<\h2126, \h2126>>, <<\h2128, \h2128>>,
     <<\h212A, \h212D>>, <<\h212F, \h2134>>, <<\h2139, \h2139>>, <<\h213C, \h213F>>,
     <<\h2145, \h2149>>, <<\h214E, \h214E>>, <<\h2160, \h217F>>, <<\h2183, \h2184>>,
     <<\h24B6, \h24E9>>, <<\h2C00, \h2C7B>>, <<\h2C7E, \h2CE4>>, <<\h2CEB, \h2CEE>>,
     <<\h2CF2, \h2CF3>>, <<\h2D00, \h2D25>>, <<\h2D27, \h2D27>>, <<\h2D2D, \h2D2D>>,
     <<\hA640, \hA66D>>, <<\hA680, \hA69B>>, <<\hA722, \hA76F>>, <<\hA771, \hA787>>,
     <<\hA78B, \hA78E>>, <<\hA790, \hA7DC>>, <<\hA7F5, \hA7F6>>, <<\hA7FA, \hA7FA>>,
     <<\hAB30, \hAB5A>>, <<\hAB60, \hAB68>>, <<\hAB70, \hABBF>>, <<\hFB00, \hFB06>>,
     <<\hFB13, \hFB17>>, <<\hFF21, \hFF3A>>, <<\hFF41, \hFF5A>>,
     <<\h10400, \h1044F>>, <<\h104B0, \h104D3>>, <<\h104D8, \h104FB>>,
     <<\h10570, \h1057A>>, <<\h1057C, \h1058A>>, <<\h1058C, \h10592>>,
     <<\h10594, \h10595>>, <<\h10597, \h105A1>>, <<\h105A3, \h105B1>>,
     <<\h105B3, \h105B9>>, <<\h105BB, \h105BC>>, <<\h10C80, \h10CB2>>,
     <<\h10CC0, \h10CF2>>, <<\h10D50, \h10D65>>, <<\h10D70, \h10D85>>,
     <<\h118A0, \h118DF>>, <<\h16E40, \h16E7F>>, <<\h16EA0, \h16EB8>>,
     <<\h16EBB, \h16ED3>>, <<\h1D400, \h1D454>>, <<\h1D456, \h1D49C>>,
     <<\h1D49E, \h1D49F>>, <<\h1D4A2, \h1D4A2>>, <<\h1D4A5, \h1D4A6>>,
     <<\h1D4A9, \h1D4AC>>, <<\h1D4AE, \h1D4B9>>, <<\h1D4BB, \h1D4BB>>,
     <<\h1D4BD, \h1D4C3>>, <<\h1D4C5, \h1D505>>, <<\h1D507, \h1D50A>>,
     <<\h1D50D, \h1D514>>, <<\h1D516, \h1D51C>>, <<\h1D51E, \h1D539>>,
     <<\h1D53B, \h1D53E>>, <<\h1D540, \h1D544>>, <<\h1D546, \h1D546>>,
     <<\h1D54A, \h1D550>>, <<\h1D552, \h1D6A5>>, <<\h1D6A8, \h1D6C0>>,
     <<\h1D6C2, \h1D6DA>>, <<\h1D6DC, \h1D6FA>>, <<\h1D6FC, \h1D714>>,
     <<\h1D716, \h1D734>>, <<\h1D736, \h1D74E>>, <<\h1D750, \h1D76E>>,
     <<\h1D770, \h1D788>>, <<\h1D78A, \h1D7A8>>, <<\h1D7AA, \h1D7C2>>,
     <<\h1D7C4, \h1D7CB>>, <<\h1DF00, \h1DF09>>, <<\h1DF0B, \h1DF1E>>,
     <<\h1DF25, \h1DF2A>>, <<\h1E900, \h1E943>>, <<\h1F130, \h1F149>>,
     <<\h1F150, \h1F169>>, <<\h1F170, \h1F189>>}
CaseIgnorableRanges ==
    {<<\h0027, \h0027>>, <<\h002E, \h002E>>, <<\h003A, \h003A>>, <<\h005E, \h005E>>,
     <<\h0060, \h0060>>, <<\h00A8, \h00A8>>, <<\h00AD, \h00AD>>, <<\h00AF, \h00AF>>,
     <<\h00B4, \h00B4>>, <<\h00B7, \h00B8>>, <<\h02B0, \h036F>>, <<\h0374, \h0375>>,
     <<\h037A, \h037A>>, <<\h0384, \h0385>>, <<\h0387, \h0387>>, <<\h0483, \h0489>>,
     <<\h0559, \h0559>>, <<\h055F, \h055F>>, <<\h0591, \h05BD>>, <<\h05BF, \h05BF>>,
     <<\h05C1, \h05C2>>, <<\h05C4, \h05C5>>, <<\h05C7, \h05C7>>, <<\h05F4, \h05F4>>,
     <<\h0600, \h0605>>, <<\h0610, \h061A>>, <<\h061C, \h061C>>, <<\h0640, \h0640>>,
     <<\h064B, \h065F>>, <<\h0670, \h0670>>, <<\h06D6, \h06DD>>, <<\h06DF, \h06E8>>,
     <<\h06EA, \h06ED>>, <<\h070F, \h070F>>, <<\h0711, \h0711>>, <<\h0730, \h074A>>,
     <<\h07A6, \h07B0>>, <<\h07EB, \h07F5>>, <<\h07FA, \h07FA>>, <<\h07FD, \h07FD>>,
     <<\h0816, \h082D>>, <<\h0859, \h085B>>, <<\h0888, \h0888>>, <<\h0890, \h0891>>,
     <<\h0897, \h089F>>, <<\h08C9, \h0902>>, <<\h093A, \h093A>>, <<\h093C, \h093C>>,
     <<\h0941, \h0948>>, <<\h094D, \h094D>>, <<\h0951, \h0957>>, <<\h0962, \h0963>>,
     <<\h0971, \h0971>>, <<\h0981, \h0981>>, <<\h09BC, \h09BC>>, <<\h09C1, \h09C4>>,
     <<\h09CD, \h09CD>>, <<\h09E2, \h09E3>>, <<\h09FE, \h09FE>>, <<\h0A01, \h0A02>>,
     <<\h0A3C, \h0A3C>>, <<\h0A41, \h0A42>>, <<\h0A47, \h0A48>>, <<\h0A4B, \h0A4D>>,
     <<\h0A51, \h0A51>>, <<\h0A70, \h0A71>>, <<\h0A75, \h0A75>>, <<\h0A81, \h0A82>>,
     <<\h0ABC, \h0ABC>>, <<\h0AC1, \h0AC5>>, <<\h0AC7, \h0AC8>>, <<\h0ACD, \h0ACD>>,
     <<\h0AE2, \h0AE3>>, <<\h0AFA, \h0AFF>>, <<\h0B01, \h0B01>>, <<\h0B3C, \h0B3C>>,
     <<\h0B3F, \h0B3F>>, <<\h0B41, \h0B44>>, <<\h0B4D, \h0B4D>>, <<\h0B55, \h0B56>>,
     <<\h0B62, \h0B63>>, <<\h0B82, \h0B82>>, <<\h0BC0, \h0BC0>>, <<\h0BCD, \h0BCD>>,
     <<\h0C00, \h0C00>>, <<\h0C04, \h0C04>>, <<\h0C3C, \h0C3C>>, <<\h0C3E, \h0C40>>,
     <<\h0C46, \h0C48>>, <<\h0C4A, \h0C4D>>, <<\h0C55, \h0C56>>, <<\h0C62, \h0C63>>,
     <<\h0C81, \h0C81>>, <<\h0CBC, \h0CBC>>, <<\h0CBF, \h0CBF>>, <<\h0CC6, \h0CC6>>,
     <<\h0CCC, \h0CCD>>, <<\h0CE2, \h0CE3>>, <<\h0D00, \h0D01>>, <<\h0D3B, \h0D3C>>,
     <<\h0D41, \h0D44>>, <<\h0D4D, \h0D4D>>, <<\h0D62, \h0D63>>, <<\h0D81, \h0D81>>,
     <<\h0DCA, \h0DCA>>, <<\h0DD2, \h0DD4>>, <<\h0DD6, \h0DD6>>, <<\h0E31, \h0E31>>,
     <<\h0E34, \h0E3A>>, <<\h0E46, \h0E4E>>, <<\h0EB1, \h0EB1>>, <<\h0EB4, \h0EBC>>,
     <<\h0EC6, \h0EC6>>, <<\h0EC8, \h0ECE>>, <<\h0F18, \h0F19>>, <<\h0F35, \h0F35>>,
     <<\h0F37, \h0F37>>, <<\h0F39, \h0F39>>, <<\h0F71, \h0F7E>>, <<\h0F80, \h0F84>>,
     <<\h0F86, \h0F87>>, <<\h0F8D, \h0F97>>, <<\h0F99, \h0FBC>>, <<\h0FC6, \h0FC6>>,
     <<\h102D, \h1030>>, <<\h1032, \h1037>>, <<\h1039, \h103A>>, <<\h103D, \h103E>>,
     <<\h1058, \h1059>>, <<\h105E, \h1060>>, <<\h1071, \h1074>>, <<\h1082, \h1082>>,
     <<\h1085, \h1086>>, <<\h108D, \h108D>>, <<\h109D, \h109D>>, <<\h10FC, \h10FC>>,
     <<\h135D, \h135F>>, <<\h1712, \h1714>>, <<\h1732, \h1733>>, <<\h1752, \h1753>>,
     <<\h1772, \h1773>>, <<\h17B4, \h17B5>>, <<\h17B7, \h17BD>>, <<\h17C6, \h17C6>>,
     <<\h17C9, \h17D3>>, <<\h17D7, \h17D7>>, <<\h17DD, \h17DD>>, <<\h180B, \h180F>>,
     <<\h1843, \h1843>>, <<\h1885, \h1886>>, <<\h18A9, \h18A9>>, <<\h1920, \h1922>>,
     <<\h1927, \h1928>>, <<\h1932, \h1932>>, <<\h1939, \h193B>>, <<\h1A17, \h1A18>>,
     <<\h1A1B, \h1A1B>>, <<\h1A56, \h1A56>>, <<\h1A58, \h1A5E>>, <<\h1A60, \h1A60>>,
     <<\h1A62, \h1A62>>, <<\h1A65, \h1A6C>>, <<\h1A73, \h1A7C>>, <<\h1A7F, \h1A7F>>,
     <<\h1AA7, \h1AA7>>, <<\h1AB0, \h1ADD>>, <<\h1AE0, \h1AEB>>, <<\h1B00, \h1B03>>,
     <<\h1B34, \h1B34>>, <<\h1B36, \h1B3A>>, <<\h1B3C, \h1B3C>>, <<\h1B42, \h1B42>>,
     <<\h1B6B, \h1B73>>, <<\h1B80, \h1B81>>, <<\h1BA2, \h1BA5>>, <<\h1BA8, \h1BA9>>,
     <<\h1BAB, \h1BAD>>, <<\h1BE6, \h1BE6>>, <<\h1BE8, \h1BE9>>, <<\h1BED, \h1BED>>,
     <<\h1BEF, \h1BF1>>, <<\h1C2C, \h1C33>>, <<\h1C36, \h1C37>>, <<\h1C78, \h1C7D>>,
     <<\h1CD0, \h1CD2>>, <<\h1CD4, \h1CE0>>, <<\h1CE2, \h1CE8>>, <<\h1CED, \h1CED>>,
     <<\h1CF4, \h1CF4>>, <<\h1CF8, \h1CF9>>, <<\h1D2C, \h1D6A>>, <<\h1D78, \h1D78>>,
     <<\h1D9B, \h1DFF>>, <<\h1FBD, \h1FBD>>, <<\h1FBF, \h1FC1>>, <<\h1FCD, \h1FCF>>,
     <<\h1FDD, \h1FDF>>, <<\h1FED, \h1FEF>>, <<\h1FFD, \h1FFE>>, <<\h200B, \h200F>>,
     <<\h2018, \h2019>>, <<\h2024, \h2024>>, <<\h2027, \h2027>>, <<\h202A, \h202E>>,
     <<\h2060, \h2064>>, <<\h2066, \h206F>>, <<\h2071, \h2071>>, <<\h207F, \h207F>>,
     <<\h2090, \h209C>>, <<\h20D0, \h20F0>>, <<\h2C7C, \h2C7D>>, <<\h2CEF, \h2CF1>>,
     <<\h2D6F, \h2D6F>>, <<\h2D7F, \h2D7F>>, <<\h2DE0, \h2DFF>>, <<\h2E2F, \h2E2F>>,
     <<\h3005, \h3005>>, <<\h302A, \h302D>>, <<\h3031, \h3035>>, <<\h303B, \h303B>>,
     <<\h3099, \h309E>>, <<\h30FC, \h30FE>>, <<\hA015, \hA015>>, <<\hA4F8, \hA4FD>>,
     <<\hA60C, \hA60C>>, <<\hA66F, \hA672>>, <<\hA674, \hA67D>>, <<\hA67F, \hA67F>>,
     <<\hA69C, \hA69F>>, <<\hA6F0, \hA6F1>>, <<\hA700, \hA721>>, <<\hA770, \hA770>>,
     <<\hA788, \hA78A>>, <<\hA7F1, \hA7F4>>, <<\hA7F8, \hA7F9>>, <<\hA802, \hA802>>,
     <<\hA806, \hA806>>, <<\hA80B, \hA80B>>, <<\hA825, \hA826>>, <<\hA82C, \hA82C>>,
     <<\hA8C4, \hA8C5>>, <<\hA8E0, \hA8F1>>, <<\hA8FF, \hA8FF>>, <<\hA926, \hA92D>>,
     <<\hA947, \hA951>>, <<\hA980, \hA982>>, <<\hA9B3, \hA9B3>>, <<\hA9B6, \hA9B9>>,
     <<\hA9BC, \hA9BD>>, <<\hA9CF, \hA9CF>>, <<\hA9E5, \hA9E6>>, <<\hAA29, \hAA2E>>,
     <<\hAA31, \hAA32>>, <<\hAA35, \hAA36>>, <<\hAA43, \hAA43>>, <<\hAA4C, \hAA4C>>,
     <<\hAA70, \hAA70>>, <<\hAA7C, \hAA7C>>, <<\hAAB0, \hAAB0>>, <<\hAAB2, \hAAB4>>,
     <<\hAAB7, \hAAB8>>, <<\hAABE, \hAABF>>, <<\hAAC1, \hAAC1>>, <<\hAADD, \hAADD>>,
     <<\hAAEC, \hAAED>>, <<\hAAF3, \hAAF4>>, <<\hAAF6, \hAAF6>>, <<\hAB5B, \hAB5F>>,
     <<\hAB69, \hAB6B>>, <<\hABE5, \hABE5>>, <<\hABE8, \hABE8>>, <<\hABED, \hABED>>,
     <<\hFB1E, \hFB1E>>, <<\hFBB2, \hFBC2>>, <<\hFE00, \hFE0F>>, <<\hFE13, \hFE13>>,
     <<\hFE20, \hFE2F>>, <<\hFE52, \hFE52>>, <<\hFE55, \hFE55>>, <<\hFEFF, \hFEFF>>,
     <<\hFF07, \hFF07>>, <<\hFF0E, \hFF0E>>, <<\hFF1A, \hFF1A>>, <<\hFF3E, \hFF3E>>,
     <<\hFF40, \hFF40>>, <<\hFF70, \hFF70>>, <<\hFF9E, \hFF9F>>, <<\hFFE3, \hFFE3>>,
     <<\hFFF9, \hFFFB>>, <<\h101FD, \h101FD>>, <<\h102E0, \h102E0>>,
     <<\h10376, \h1037A>>, <<\h10780, \h10785>>, <<\h10787, \h107B0>>,
     <<\h107B2, \h107BA>>, <<\h10A01, \h10A03>>, <<\h10A05, \h10A06>>,
     <<\h10A0C, \h10A0F>>, <<\h10A38, \h10A3A>>, <<\h10A3F, \h10A3F>>,
     <<\h10AE5, \h10AE6>>, <<\h10D24, \h10D27>>, <<\h10D4E, \h10D4E>>,
     <<\h10D69, \h10D6D>>, <<\h10D6F, \h10D6F>>, <<\h10EAB, \h10EAC>>,
     <<\h10EC5, \h10EC5>>, <<\h10EFA, \h10EFF>>, <<\h10F46, \h10F50>>,
     <<\h10F82, \h10F85>>, <<\h11001, \h11001>>, <<\h11038, \h11046>>,
     <<\h11070, \h11070>>, <<\h11073, \h11074>>, <<\h1107F, \h11081>>,
     <<\h110B3, \h110B6>>, <<\h110B9, \h110BA>>, <<\h110BD, \h110BD>>,
     <<\h110C2, \h110C2>>, <<\h110CD, \h110CD>>, <<\h11100, \h11102>>,
     <<\h11127, \h1112B>>, <<\h1112D, \h11134>>, <<\h11173, \h11173>>,
     <<\h11180, \h11181>>, <<\h111B6, \h111BE>>, <<\h111C9, \h111CC>>,
     <<\h111CF, \h111CF>>, <<\h1122F, \h11231>>, <<\h11234, \h11234>>,
     <<\h11236, \h11237>>, <<\h1123E, \h1123E>>, <<\h11241, \h11241>>,
     <<\h112DF, \h112DF>>, <<\h112E3, \h112EA>>, <<\h11300, \h11301>>,
     <<\h1133B, \h1133C>>, <<\h11340, \h11340>>, <<\h11366, \h1136C>>,
     <<\h11370, \h11374>>, <<\h113BB, \h113C0>>, <<\h113CE, \h113CE>>,
     <<\h113D0, \h113D0>>, <<\h113D2, \h113D2>>, <<\h113E1, \h113E2>>,
     <<\h11438, \h1143F>>, <<\h11442, \h11444>>, <<\h11446, \h11446>>,
     <<\h1145E, \h1145E>>, <<\h114B3, \h114B8>>, <<\h114BA, \h114BA>>,
     <<\h114BF, \h114C0>>, <<\h114C2, \h114C3>>, <<\h115B2, \h115B5>>,
     <<\h115BC, \h115BD>>, <<\h115BF, \h115C0>>, <<\h115DC, \h115DD>>,
     <<\h11633, \h1163A>>, <<\h1163D, \h1163D>>, <<\h1163F, \h11640>>,
     <<\h116AB, \h116AB>>, <<\h116AD, \h116AD>>, <<\h116B0, \h116B5>>,
     <<\h116B7, \h116B7>>, <<\h1171D, \h1171D>>, <<\h1171F, \h1171F>>,
     <<\h11722, \h11725>>, <<\h11727, \h1172B>>, <<\h1182F, \h11837>>,
     <<\h11839, \h1183A>>, <<\h1193B, \h1193C>>, <<\h1193E, \h1193E>>,
     <<\h11943, \h11943>>, <<\h119D4, \h119D7>>, <<\h119DA, \h119DB>>,
     <<\h119E0, \h119E0>>, <<\h11A01, \h11A0A>>, <<\h11A33, \h11A38>>,
     <<\h11A3B, \h11A3E>>, <<\h11A47, \h11A47>>, <<\h11A51, \h11A56>>,
     <<\h11A59, \h11A5B>>, <<\h11A8A, \h11A96>>, <<\h11A98, \h11A99>>,
     <<\h11B60, \h11B60>>, <<\h11B62, \h11B64>>, <<\h11B66, \h11B66>>,
     <<\h11C30, \h11C36>>, <<\h11C38, \h11C3D>>, <<\h11C3F, \h11C3F>>,
     <<\h11C92, \h11CA7>>, <<\h11CAA, \h11CB0>>, <<\h11CB2, \h11CB3>>,
     <<\h11CB5, \h11CB6>>, <<\h11D31, \h11D36>>, <<\h11D3A, \h11D3A>>,
     <<\h11D3C, \h11D3D>>, <<\h11D3F, \h11D45>>, <<\h11D47, \h11D47>>,
     <<\h11D90, \h11D91>>, <<\h11D95, \h11D95>>, <<\h11D97, \h11D97>>,
     <<\h11DD9, \h11DD9>>, <<\h11EF3, \h11EF4>>, <<\h11F00, \h11F01>>,
     <<\h11F36, \h11F3A>>, <<\h11F40, \h11F40>>, <<\h11F42, \h11F42>>,
     <<\h11F5A, \h11F5A>>, <<\h13430, \h13440>>, <<\h13447, \h13455>>,
     <<\h1611E, \h16129>>, <<\h1612D, \h1612F>>, <<\h16AF0, \h16AF4>>,
     <<\h16B30, \h16B36>>, <<\h16B40, \h16B43>>, <<\h16D40, \h16D42>>,
     <<\h16D6B, \h16D6C>>, <<\h16F4F, \h16F4F>>, <<\h16F8F, \h16F9F>>,
     <<\h16FE0, \h16FE1>>, <<\h16FE3, \h16FE4>>, <<\h16FF2, \h16FF3>>,
     <<\h1AFF0, \h1AFF3>>, <<\h1AFF5, \h1AFFB>>, <<\h1AFFD, \h1AFFE>>,
     <<\h1BC9D, \h1BC9E>>, <<\h1BCA0, \h1BCA3>>, <<\h1CF00, \h1CF2D>>,
     <<\h1CF30, \h1CF46>>, <<\h1D167, \h1D169>>, <<\h1D173, \h1D182>>,
     <<\h1D185, \h1D18B>>, <<\h1D1AA, \h1D1AD>>, <<\h1D242, \h1D244>>,
     <<\h1DA00, \h1DA36>>, <<\h1DA3B, \h1DA6C>>, <<\h1DA75, \h1DA75>>,
     <<\h1DA84, \h1DA84>>, <<\h1DA9B, \h1DA9F>>, <<\h1DAA1, \h1DAAF>>,
     <<\h1E000, \h1E006>>, <<\h1E008, \h1E018>>, <<\h1E01B, \h1E021>>,
     <<\h1E023, \h1E024>>, <<\h1E026, \h1E02A>>, <<\h1E030, \h1E06D>>,
     <<\h1E08F, \h1E08F>>, <<\h1E130, \h1E13D>>, <<\h1E2AE, \h1E2AE>>,
     <<\h1E2EC, \h1E2EF>>, <<\h1E4EB, \h1E4EF>>, <<\h1E5EE, \h1E5EF>>,
     <<\h1E6E3, \h1E6E3>>, <<\h1E6E6, \h1E6E6>>, <<\h1E6EE, \h1E6EF>>,
     <<\h1E6F5, \h1E6F5>>, <<\h1E6FF, \h1E6FF>>, <<\h1E8D0, \h1E8D6>>,
     <<\h1E944, \h1E94B>>, <<\h1F3FB, \h1F3FF>>, <<\hE0001, \hE0001>>,
     <<\hE0020, \hE007F>>, <<\hE0100, \hE01EF>>}

\* The code points of the ranges, as code units.
PointsOf(ranges) == UNION { { CodeUnits(cp) : cp \in r[1] .. r[2] } : r \in ranges }
CasedPoints == PointsOf(CasedRanges)
CaseIgnorablePoints == PointsOf(CaseIgnorableRanges)

\* The mapping as pairs <<code point, its lower case>>; I with a dot above is
\* the one code point that becomes two.
LowerPairs ==
    UNION { { <<CodeUnits(cp), CodeUnits(cp + r[4])>> :
                cp \in { k \in r[1] .. r[2] : (k - r[1]) % r[3] = 0 } } :
            r \in LowerRuns }
    \cup { << <<"u0130">>, <<"i", "u0307">> >> }
LowerDomain == { p[1] : p \in LowerPairs }
LowerOf == [u \in LowerDomain |-> (CHOOSE p \in LowerPairs : p[1] = u)[2]]

\* toLowerCase of one code point, away from any context.
LowerPoint(u) == IF u \in LowerDomain THEN LowerOf[u] ELSE u

\* String.prototype.toLowerCase of the string of the one code unit c.
LowerChar(c) == LowerPoint(<<c>>)

\* The code point position i of s belongs to: a high surrogate followed by a
\* low one is one code point, any other code unit is one by itself.
LeadsPair(s, i) ==
    i < Len(s) /\ s[i] \in HighSurrogates /\ s[i + 1] \in LowSurrogates
TrailsPair(s, i) == i > 1 /\ LeadsPair(s, i - 1)
CodePointAt(s, i) ==
    IF LeadsPair(s, i) THEN <<s[i], s[i + 1]>>
    ELSE IF TrailsPair(s, i) THEN <<s[i - 1], s[i]>>
    ELSE <<s[i]>>
CaseIgnorable(s, i) == CodePointAt(s, i) \in CaseIgnorablePoints
Cased(s, i) == CodePointAt(s, i) \in CasedPoints

\* The capital sigma at position i ends a word: a cased letter comes before
\* it and none comes after it, the skipped code points left aside.
FinalSigma(s, i) ==
    /\ \E j \in 1 .. i - 1 :
           Cased(s, j) /\ \A k \in j + 1 .. i - 1 : CaseIgnorable(s, k)
    /\ ~\E j \in i + 1 .. Len(s) :
           Cased(s, j) /\ \A k \in i + 1 .. j - 1 : CaseIgnorable(s, k)

\* What the code unit at position i of s becomes; the code unit that ends a
\* surrogate pair is lowered with the one that starts it.
LowerAt(s, i) ==
    IF TrailsPair(s, i) THEN << >>
    ELSE IF s[i] = "u03A3" /\ FinalSigma(s, i) THEN <<"u03C2">>
    ELSE LowerPoint(CodePointAt(s, i))

RECURSIVE LowerFrom(_, _)
LowerFrom(s, i) == IF i > Len(s) THEN << >> ELSE LowerAt(s, i) \o LowerFrom(s, i + 1)

\* String.prototype.toLowerCase
toLowerCase(s) == LowerFrom(s, 1)

\* String.prototype.includes
Includes(t, pat) == IndexOf(t, pat, 0) # -1

\* String.prototype.split(/\s+/), from position i on: cur is the piece being
\* read, inRun tells that the previous character was whitespace.
RECURSIVE SplitFrom(_, _, _, _)
SplitFrom(s, i, cur, inRun) ==
    IF i > Len(s) THEN <<cur>>
    ELSE IF IsWhitespace(s[i])
         THEN IF inRun THEN SplitFrom(s, i + 1, cur, TRUE)
              ELSE <<cur>> \o SplitFrom(s, i + 1, << >>, TRUE)
         ELSE SplitFrom(s, i + 1, Append(cur, s[i]), FALSE)
SplitWhitespace(s) == SplitFrom(s, 1, << >>, FALSE)

\* QueryWords keeping the words of two characters.
QueryWordsShort(queryLower) ==
    SelectSeq(SplitWhitespace(queryLower), LAMBDA w : Len(w) > 1)

\* const queryWords
QueryWords(queryLower) ==
    SelectSeq(SplitWhitespace(queryLower), LAMBDA w : Len(w) > 2)

\* matchedWords after the for loop.
MatchedWords(queryWords, textLower) ==
    Cardinality({ i \in 1 .. Len(queryWords) : Includes(textLower, queryWords[i]) })

\* const TEXT_MATCH_SCORE = 0.6
TEXT_MATCH_SCORE == <<1022, 1638, 3276, 6553, 4915>>

\* TEXT_MATCH_SCORE + 0.3
SubstringScore == DoublePlus(TEXT_MATCH_SCORE, <<1021, 1638, 3276, 6553, 4915>>)

\* matchRatio >= 0.5
HalfMatched(matchRatio) == DoubleCompare(matchRatio, <<1022, 0, 0, 0, 0>>) >= 0

textMatchScore(q, t) ==
    LET queryLower == toLowerCase(q)
        textLower  == toLowerCase(t)
    IN  IF Includes(textLower, queryLower) THEN SubstringScore
        ELSE LET queryWords   == QueryWords(queryLower)
                 matchedWords == MatchedWords(queryWords, textLower)
                 matchRatio   == DoubleDivide(matchedWords, Len(queryWords))
             IN  IF Len(queryWords) = 0 THEN DoubleZero
                 ELSE IF HalfMatched(matchRatio)
                      THEN DoubleTimes(TEXT_MATCH_SCORE, matchRatio)
                      ELSE DoubleZero

\* The call returns.
Score ==
    /\ lpc = "call"
    /\ score' = textMatchScore(query, candidate)
    /\ lpc' = "done"
    /\ UNCHANGED <<frontVars, chunkVars, intentVars, query, candidate, globalVars,
                   docSearchVars>>

----------------------------------------------------------------------------
\* Inputs of textMatchScore.

LexAlphabet == {"a", "B", " "}

RECURSIVE LexStrings(_)
LexStrings(n) ==
    IF n = 0 THEN { << >> }
    ELSE LET S == LexStrings(n - 1)
         IN  S \cup { Append(s, c) : s \in { x \in S : Len(x) = n - 1 },
                                     c \in LexAlphabet }

\* The words the longer queries and texts are made of.
QueryVocabulary ==
    { <<"c", "a", "t">>, <<"D", "o", "g">>, <<"o", "w", "l">>, <<"a", "n">> }
TextVocabulary ==
    { <<"C", "a", "t">>, <<"d", "o", "g">>, <<"b", "o", "w", "l">>, <<"a", "n">> }

\* The words of ws joined by the separator sep.
RECURSIVE JoinWith(_, _)
JoinWith(ws, sep) ==
    IF Len(ws) = 0 THEN << >>
    ELSE IF Len(ws) = 1 THEN ws[1]
    ELSE ws[1] \o sep \o JoinWith(Tail(ws), sep)

WordLists(V, n) == UNION { [1 .. k -> V] : k \in 0 .. n }

\* Queries of up to MaxWords words, separated by one blank, by a blank and a
\* tab, or by one blank after a leading blank.
WordQueries ==
    { JoinWith(ws, <<" ">>) : ws \in WordLists(QueryVocabulary, MaxWords) }
    \cup { JoinWith(ws, <<" ", "\t">>) : ws \in WordLists(QueryVocabulary, MaxWords) }
    \cup { <<" ">> \o JoinWith(ws, <<" ">>) : ws \in WordLists(QueryVocabulary, MaxWords) }

WordTexts ==
    { JoinWith(ws, <<" ">>) : ws \in WordLists(TextVocabulary, MaxTextWords) }

\* Queries and texts with capitals throughout the alphabet, their words
\* separated by white space other than the blank; and with capitals beyond
\* ASCII: E with an acute accent, I with a dot above, which becomes two code
\* units, the Greek capitals with a sigma at the end of a word and inside of
\* one, and a Deseret capital, which is a surrogate pair.
CaseQueries ==
    { <<"H", "e", "l", "l", "o">>, <<"Z", "E", "B", "R", "A">>,
      <<"H", "e", "l", "l", "o", "\f", "Q", "u", "i", "z">>,
      <<"Q", "U", "I", "Z", "u00A0", "Y", "a", "k">>,
      <<"\f">>,
      <<"u00C9", "t", "u00E9">>,
      <<"u0130", "a", " ", "u0130", "b">>,
      <<"u039F", "u0394", "u039F", "u03A3">>,
      <<"u03A3", "u039F", "u03A3", "'">>,
      <<"uD801", "uDC00", "a">> }
CaseTexts ==
    { <<"h", "e", "l", "l", "o">>, <<"a", " ", "Z", "e", "b", "r", "a">>,
      <<"q", "u", "i", "z", " ", "h", "e", "l", "l", "o">>,
      <<"Y", "A", "K", "\f", "q", "u", "i", "z">>, <<"a">>,
      <<"u00E9", "t", "u00E9", "s">>,
      <<"x", "i", "u0307", "a">>,
      <<"u03BF", "u03B4", "u03BF", "u03C2">>,
      <<"u03BF", "u03B4", "u03BF", "u03C3">>,
      <<"u039F", "u0394", "u039F", "u03A3", "u0391">>,
      <<"u03C3", "u03BF", "u03C2", "'", "u03C3">>,
      <<"uD801", "uDC28", "A">> }

\* The examples: "cat" in "I have a cat", "xyz123" against "no match here", a
\* capital sigma against a word that ends with one; and queries of seven
\* words, of which a text matches any number.
ExampleQueries ==
    { <<"c", "a", "t">>, <<"x", "y", "z", "1", "2", "3">>, <<"u03A3">> }
ExampleTexts ==
    { <<"I", " ", "h", "a", "v", "e", " ", "a", " ", "c", "a", "t">>,
      <<"n", "o", " ", "m", "a", "t", "c", "h", " ", "h", "e", "r", "e">>,
      <<"u039F", "u0394", "u039F", "u03A3">> }
LongQueries ==
    { JoinWith(ws, <<" ">>) :
        ws \in [1 .. 7 -> { <<"c", "a", "t">>, <<"o", "w", "l">> }] }

InitLexical ==
    /\ ChunkOff
    /\ FrontOff
    /\ IntentOff
    /\ GlobalOff
    /\ DocSearchOff
    /\ \/ /\ query \in LexStrings(MaxQueryLen)
          /\ candidate \in LexStrings(MaxTextLen)
       \/ /\ query \in WordQueries
          /\ candidate \in WordTexts
       \/ /\ query \in CaseQueries
          /\ candidate \in CaseTexts
       \/ /\ query \in ExampleQueries
          /\ candidate \in ExampleTexts
       \/ /\ query \in LongQueries
          /\ candidate \in WordTexts
    /\ score = DoubleZero
    /\ lpc = "call"

NextLexical == Score

SpecLexical == InitLexical /\ [][NextLexical]_vars

----------------------------------------------------------------------------
----------------------------------------------------------------------------
\* globalSearch
\*
\* A row holds the columns the function reads; null and the empty string,
\* which the code does not tell apart, are both the empty sequence (texts) or
\* "" (ids). A result record holds the fields computed by the function; the
\* fields copied unchanged from a row (names, citation data, note, position)
\* are left out.

\* limit: number = 20
DefaultLimit == 20

\* [a, b, c].filter(Boolean).join(' ')
JoinFields(fields) ==
    JoinWith(SelectSeq(fields, LAMBDA f : f # << >>), <<" ">>)

\* a || b || c on strings: the first that is not empty, else the last.
RECURSIVE FirstTruthy(_)
FirstTruthy(fields) ==
    IF Len(fields) = 1 \/ fields[1] # << >> THEN fields[1]
    ELSE FirstTruthy(Tail(fields))

getRelevanceLevel(similarity) ==
    IF DoubleCompare(similarity, <<1022, 3276, 6553, 4915, 1638>>) >= 0 THEN "high"
    ELSE IF DoubleCompare(similarity, <<1022, 0, 0, 0, 0>>) >= 0 THEN "medium"
    ELSE "low"

ResultRecord(type, folderId, documentId, annotationId, category, matchedText, s) ==
    [type |-> type, folderId |-> folderId, documentId |-> documentId,
     annotationId |-> annotationId, category |-> category,
     matchedText |-> matchedText, similarityScore |-> s,
     relevanceLevel |-> getRelevanceLevel(s)]

\* if (score > 0) results.push(record): the records pushed, none or one.
PushIfMatched(s, record) ==
    IF DoubleCompare(s, DoubleZero) > 0 THEN <<record>> ELSE << >>

RECURSIVE Flatten(_)
Flatten(ss) == IF Len(ss) = 0 THEN << >> ELSE ss[1] \o Flatten(Tail(ss))

\* FindProject returning the project whatever the id.
FindProjectAny(db, id) == <<db.project>>

\* db.select().from(projects).where(eq(projects.id, projectId))
FindProject(db, id) == IF db.project.id = id THEN <<db.project>> ELSE << >>

\* The records pushed for the project itself, with the test of contextSummary
\* and thesis left out.
ProjectResultsByName(q, project) ==
    LET textToMatch == JoinFields(<<project.contextSummary, project.thesis,
                                    project.name>>)
        s == textMatchScore(q, textToMatch)
    IN  PushIfMatched(s, ResultRecord("folder_context", "", "", "", "",
              FirstTruthy(<<project.contextSummary, project.thesis, project.name>>),
              s))

\* The records pushed for the project itself.
ProjectResults(q, project) ==
    IF project.contextSummary # << >> \/ project.thesis # << >>
    THEN LET textToMatch == JoinFields(<<project.contextSummary, project.thesis,
                                         project.name>>)
             s == textMatchScore(q, textToMatch)
         IN  PushIfMatched(s, ResultRecord("folder_context", "", "", "", "",
                   FirstTruthy(<<project.contextSummary, project.thesis,
                                 project.name>>),
                   s))
    ELSE << >>

\* The rows of a table that belong to the project, in table order.
RowsOfProject(rows, id) == SelectSeq(rows, LAMBDA row : row.projectId = id)

\* The test that lets a folder through the filters.
FolderPasses(f, folder) ==
    ~(f.folderIds.given /\ folder.id \notin f.folderIds.ids)

FolderResults(q, f, folder) ==
    IF FolderPasses(f, folder)
    THEN LET textToMatch == JoinFields(<<folder.contextSummary, folder.description,
                                         folder.name>>)
             s == textMatchScore(q, textToMatch)
         IN  PushIfMatched(s, ResultRecord("folder_context", folder.id, "", "", "",
                   FirstTruthy(<<folder.contextSummary, folder.description,
                                 folder.name>>),
                   s))
    ELSE << >>

\* The tests that let a project document through the filters.
DocumentPasses(f, projectDoc) ==
    /\ ~(f.documentIds.given /\ projectDoc.id \notin f.documentIds.ids)
    /\ ~(f.folderIds.given /\ projectDoc.folderId # ""
           /\ projectDoc.folderId \notin f.folderIds.ids)

\* A row of projectDocuments joined with documents.
DocumentResults(q, f, row) ==
    IF DocumentPasses(f, row)
    THEN LET textToMatch == JoinFields(<<row.retrievalContext, row.summary,
                                         row.filename>>)
             s == textMatchScore(q, textToMatch)
         IN  PushIfMatched(s, ResultRecord("document_context", row.folderId, row.id,
                   "", "",
                   FirstTruthy(<<row.retrievalContext, row.summary, row.filename>>),
                   s))
    ELSE << >>

\* The tests that let an annotation of a project document through the filters.
AnnotationPasses(f, annotation, projectDoc) ==
    /\ ~(f.categories.given /\ annotation.category \notin f.categories.ids)
    /\ DocumentPasses(f, projectDoc)

\* projectAnnotations joined with projectDocuments (and documents): the
\* annotations whose project document is a row of the project.
JoinAnnotations(db, id) ==
    LET docs == RowsOfProject(db.projectDocs, id)
        docOf(a) == CHOOSE i \in 1 .. Len(docs) : docs[i].id = a.projectDocumentId
        joined == SelectSeq(db.annotations,
                      LAMBDA a : \E i \in 1 .. Len(docs) :
                                     docs[i].id = a.projectDocumentId)
    IN  [i \in 1 .. Len(joined) |->
            [annotation |-> joined[i], projectDoc |-> docs[docOf(joined[i])]]]

AnnotationResults(q, f, row) ==
    IF AnnotationPasses(f, row.annotation, row.projectDoc)
    THEN LET textToMatch == JoinFields(<<row.annotation.searchableContent,
                                         row.annotation.highlightedText,
                                         row.annotation.note>>)
             s == textMatchScore(q, textToMatch)
         IN  PushIfMatched(s, ResultRecord("annotation", row.projectDoc.folderId,
                   row.projectDoc.id, row.annotation.id, row.annotation.category,
                   FirstTruthy(<<row.annotation.searchableContent,
                                 row.annotation.highlightedText>>),
                   s))
    ELSE << >>

\* The comparator of results.sort, by the sign of the difference it returns,
\* and the comparator turned around.
CompareScoreAscending(a, b) == DoubleCompare(a.similarityScore, b.similarityScore)
CompareScore(a, b) == DoubleCompare(b.similarityScore, a.similarityScore)

\* results.sort(...): Array.prototype.sort is stable.
SortByScore(xs) ==
    LET n == Len(xs)
        posOf == [i \in 1 .. n |->
                    Cardinality({ j \in 1 .. n : CompareScore(xs[j], xs[i]) < 0 })
                    + Cardinality({ j \in 1 .. i - 1 : CompareScore(xs[j], xs[i]) = 0 })
                    + 1]
    IN  [p \in 1 .. n |-> xs[CHOOSE i \in 1 .. n : posOf[i] = p]]

\* The value of the parameter limit.
LimitValue(l) == IF l.given THEN l.value ELSE DefaultLimit

\* The project is selected: without it the function returns the empty
\* response; with it the project's own text is scored and the folders are
\* selected.
SelectProject ==
    /\ gpc = "project"
    /\ LET rows == FindProject(gdb, projectId)
       IN  IF rows = << >>
           THEN /\ gresp' = [results |-> << >>, totalResults |-> 0]
                /\ gpc' = "done"
                /\ UNCHANGED results
           ELSE /\ results' = results \o ProjectResults(query, rows[1])
                /\ gpc' = "folders"
                /\ UNCHANGED gresp
    /\ UNCHANGED <<frontVars, chunkVars, intentVars,
                   lexVars, docSearchVars, gdb, projectId,
                   filters, limit>>

\* The folders of the project are scored; the project documents are selected.
SelectFolders ==
    /\ gpc = "folders"
    /\ LET projectFolders == RowsOfProject(gdb.folders, projectId)
       IN  results' = results \o
               Flatten([i \in 1 .. Len(projectFolders) |->
                           FolderResults(query, filters, projectFolders[i])])
    /\ gpc' = "documents"
    /\ UNCHANGED <<frontVars, chunkVars, intentVars,
                   lexVars, docSearchVars, gdb, projectId,
                   filters, limit, gresp>>

\* The project documents are scored; the annotations are selected.
SelectDocuments ==
    /\ gpc = "documents"
    /\ LET projectDocs == RowsOfProject(gdb.projectDocs, projectId)
       IN  results' = results \o
               Flatten([i \in 1 .. Len(projectDocs) |->
                           DocumentResults(query, filters, projectDocs[i])])
    /\ gpc' = "annotations"
    /\ UNCHANGED <<frontVars, chunkVars, intentVars,
                   lexVars, docSearchVars, gdb, projectId,
                   filters, limit, gresp>>

\* The annotations are scored; the results are sorted and cut to the limit,
\* and the function returns.
SelectAnnotations ==
    /\ gpc = "annotations"
    /\ LET allAnnotations == JoinAnnotations(gdb, projectId)
           pool == results \o
               Flatten([i \in 1 .. Len(allAnnotations) |->
                           AnnotationResults(query, filters, allAnnotations[i])])
           sorted == SortByScore(pool)
       IN  /\ results' = sorted
           /\ gresp' = [results |-> Slice(sorted, 0, LimitValue(limit)),
                        totalResults |-> Len(sorted)]
    /\ gpc' = "done"
    /\ UNCHANGED <<frontVars, chunkVars, intentVars,
                   lexVars, docSearchVars, gdb, projectId,
                   filters, limit>>

----------------------------------------------------------------------------
\* Inputs of globalSearch.

\* The query "cat Dog" and texts that score 0.6 + 0.3, 0.6, 0.3 and 0 on it.
CatDog   == <<"c", "a", "t", " ", "D", "o", "g">>
TextHigh == <<"C", "a", "t", " ", "d", "o", "g">>
TextFull == <<"d", "o", "g", " ", "c", "a", "t">>
TextHalf == <<"c", "a", "t">>
TextNone == <<"b", "o", "w", "l">>

ProjectRow(contextSummary, thesis, name) ==
    [id |-> "p1", contextSummary |-> contextSummary, thesis |-> thesis,
     name |-> name]
FolderRow(id, pid, name) ==
    [id |-> id, projectId |-> pid, contextSummary |-> << >>,
     description |-> << >>, name |-> name]
DocumentRow(id, pid, folderId, filename) ==
    [id |-> id, projectId |-> pid, folderId |-> folderId,
     retrievalContext |-> << >>, summary |-> << >>, filename |-> filename]
AnnotationRow(id, docId, category, highlightedText) ==
    [id |-> id, projectDocumentId |-> docId, category |-> category,
     searchableContent |-> << >>, highlightedText |-> highlightedText,
     note |-> << >>]

FolderIds == <<"f1", "f2", "f3">>
DocumentIds == <<"d1", "d2", "d3">>
AnnotationIds == <<"a1", "a2", "a3">>

Given(ids) == [given |-> TRUE, ids |-> ids]
NotGiven == [given |-> FALSE, ids |-> {}]

\* Sequences of up to n texts.
TextLists(T, n) == UNION { [1 .. k -> T] : k \in 0 .. n }

\* Projects with up to MaxSources folders, documents and annotations of every
\* score, searched without filters under every limit.
SortWorlds ==
    { [db |-> [project |-> ProjectRow(pt, << >>, TextNone),
               folders |-> [i \in 1 .. Len(ft) |-> FolderRow(FolderIds[i], "p1", ft[i])],
               projectDocs |-> [i \in 1 .. Len(dt) |->
                                   DocumentRow(DocumentIds[i], "p1", "", dt[i])],
               annotations |-> [i \in 1 .. Len(at) |->
                                   AnnotationRow(AnnotationIds[i], "d1", "argument",
                                                 at[i])]],
       projectId |-> "p1", query |-> CatDog, filters |-> NoFilters, limit |-> l] :
         pt \in {TextFull, TextHalf},
         ft \in TextLists({TextHigh, TextHalf, TextNone}, MaxSources),
         dt \in TextLists({TextHigh, TextHalf, TextNone}, MaxSources),
         at \in TextLists({TextHigh, TextHalf, TextNone}, MaxSources),
         l \in { [given |-> TRUE, value |-> v] : v \in -1 .. MaxLimit }
               \cup { [given |-> FALSE, value |-> 0] } }

\* A project with two folders, two documents in or out of the folders and an
\* annotation on each, every text matching, searched under every combination
\* of filters, by its id and by an id no project has.
FilterWorlds ==
    { [db |-> [project |-> ProjectRow(TextHigh, << >>, TextNone),
               folders |-> <<FolderRow("f1", "p1", TextHigh),
                             FolderRow("f2", "p1", TextHigh)>>,
               projectDocs |-> <<DocumentRow("d1", "p1", fd[1], TextHigh),
                                 DocumentRow("d2", "p1", fd[2], TextHigh)>>,
               annotations |-> <<AnnotationRow("a1", "d1", ca[1], TextHigh),
                                 AnnotationRow("a2", "d2", ca[2], TextHigh)>>],
       projectId |-> pid, query |-> CatDog,
       filters |-> [categories |-> fc, folderIds |-> ff, documentIds |-> fdoc],
       limit |-> [given |-> FALSE, value |-> 0]] :
         fd \in {"", "f1", "f2"} \X {"", "f1", "f2"},
         ca \in {"argument", "key_quote"} \X {"argument", "key_quote"},
         pid \in {"p1", "nope"},
         fc \in {NotGiven, Given({"argument"})},
         ff \in {NotGiven, Given({}), Given({"f1"}), Given({"f1", "f2"})},
         fdoc \in {NotGiven, Given({}), Given({"d1"})} }

\* Projects described by a context summary, a thesis, a name or several of
\* them, next to the rows of another project, searched with a query and with
\* the empty query.
ProjectWorlds ==
    { [db |-> [project |-> ProjectRow(cs, th, nm),
               folders |-> <<FolderRow("f1", "p1", TextHalf),
                             FolderRow("f2", "p2", TextHigh)>>,
               projectDocs |-> <<DocumentRow("d1", "p1", "f1", TextNone),
                                 DocumentRow("d2", "p2", "f2", TextHigh)>>,
               annotations |-> <<AnnotationRow("a1", "d2", "argument", TextHigh),
                                 AnnotationRow("a2", "d1", "argument", TextFull)>>],
       projectId |-> pid, query |-> q, filters |-> NoFilters, limit |-> l] :
         cs \in {<< >>, TextHigh, TextNone},
         th \in {<< >>, TextHalf},
         nm \in {TextHigh, TextNone},
         pid \in {"p1", "nope"},
         q \in {CatDog, << >>},
         l \in { [given |-> FALSE, value |-> 0], [given |-> TRUE, value |-> 1] } }

InitGlobal ==
    /\ ChunkOff
    /\ FrontOff
    /\ IntentOff
    /\ LexOff
    /\ DocSearchOff
    /\ \E w \in SortWorlds \cup FilterWorlds \cup ProjectWorlds :
          /\ gdb = w.db
          /\ projectId = w.projectId
          /\ query = w.query
          /\ filters = w.filters
          /\ limit = w.limit
    /\ results = << >>
    /\ gresp = NoResponse
    /\ gpc = "project"

NextGlobal ==
    \/ SelectProject
    \/ SelectFolders
    \/ SelectDocuments
    \/ SelectAnnotations

SpecGlobal == InitGlobal /\ [][NextGlobal]_vars

----------------------------------------------------------------------------
\* Single-document semantic search: POST /api/documents/:id/search and
\* searchProjectDocument, which differ in how they answer.

\* .slice(0, 5)
SearchTop == 5

\* const rankedChunks: the chunks that have an embedding, with their
\* similarity to the query, sorted and cut to the first SearchTop.
SearchRank(embs, queryEmbedding) ==
    LET withEmbedding == SelectSeq([c \in 1 .. Len(embs) |-> c],
                                   LAMBDA c : embs[c] # NoVec)
        scored == [i \in 1 .. Len(withEmbedding) |->
                     [chunk |-> withEmbedding[i],
                      similarity |-> cosineSimilarity(embs[withEmbedding[i]],
                                                      queryEmbedding)]]
    IN  Slice(SortBySimilarity(scored), 0, SearchTop)

\* The call ends with the outcome o.
SearchEnds(o) == sresp' = o /\ spc' = "done"

\* The ids searchProjectDocument is called with: the project document of
\* document "d1", the id of no project document, and a project document whose
\* document is not in the documents table.
ProjectDocIds == {"d1", "nodoc", "orphan"}

\* The request arrives: the route answers 400 to an empty query and awaits
\* storage.getDocument; searchProjectDocument awaits the select of the
\* project document.
SearchReceive ==
    /\ spc = "received"
    /\ IF svia = "route"
       THEN IF query = << >>
            THEN SearchEnds("400")
            ELSE spc' = "getDocument" /\ UNCHANGED sresp
       ELSE spc' = "selectProjectDocument" /\ UNCHANGED sresp
    /\ UNCHANGED <<frontVars, chunkVars, intentVars,
                   lexVars, globalVars, svia, sdoc, schunks,
                   sranked, handed>>

\* storage.getDocument resolves in the route: 404 without a document;
\* storage.getChunksForDocument is awaited.
SearchGetDocument ==
    /\ spc = "getDocument"
    /\ IF sdoc # "d1"
       THEN SearchEnds("404")
       ELSE spc' = "getChunks" /\ UNCHANGED sresp
    /\ UNCHANGED <<frontVars, chunkVars, intentVars,
                   lexVars, globalVars, svia, sdoc, schunks,
                   sranked, handed>>

\* The select of the project document resolves: "Project document not found"
\* is thrown without a row; the select of the document is awaited.
SearchSelectProjectDocument ==
    /\ spc = "selectProjectDocument"
    /\ IF sdoc = "nodoc"
       THEN SearchEnds("throw")
       ELSE spc' = "selectDocument" /\ UNCHANGED sresp
    /\ UNCHANGED <<frontVars, chunkVars, intentVars,
                   lexVars, globalVars, svia, sdoc, schunks,
                   sranked, handed>>

\* The select of the document resolves: "Document not found" is thrown
\* without a row; the select of the project is awaited.
SearchSelectDocument ==
    /\ spc = "selectDocument"
    /\ IF sdoc # "d1"
       THEN SearchEnds("throw")
       ELSE spc' = "selectProject" /\ UNCHANGED sresp
    /\ UNCHANGED <<frontVars, chunkVars, intentVars,
                   lexVars, globalVars, svia, sdoc, schunks,
                   sranked, handed>>

\* The select of the project resolves; storage.getChunksForDocument is
\* awaited.
SearchSelectProject ==
    /\ spc = "selectProject"
    /\ spc' = "getChunks"
    /\ UNCHANGED <<frontVars, chunkVars, intentVars,
                   lexVars, globalVars, svia, sdoc, schunks,
                   sranked, handed, sresp>>

\* storage.getChunksForDocument resolves: searchProjectDocument returns []
\* for a document without chunks; getEmbedding(query) is awaited.
SearchGetChunks ==
    /\ spc = "getChunks"
    /\ schunks' = stored
    /\ IF svia = "projectDocument" /\ nChunks = 0
       THEN SearchEnds("return")
       ELSE spc' = "embedQuery" /\ UNCHANGED sresp
    /\ UNCHANGED <<frontVars, chunkVars, intentVars,
                   lexVars, globalVars, svia, sdoc, sranked,
                   handed>>

\* getEmbedding(query) resolves: the chunks are ranked; without ranked chunks
\* the answer is [], otherwise they are handed to searchDocument.
SearchQueryEmbedded ==
    /\ spc = "embedQuery"
    /\ LET rankedChunks == SearchRank(schunks, QueryVec)
       IN  /\ sranked' = rankedChunks
           /\ IF Len(rankedChunks) = 0
              THEN /\ SearchEnds(IF svia = "route" THEN "json" ELSE "return")
                   /\ UNCHANGED handed
              ELSE /\ handed' = [i \in 1 .. Len(rankedChunks) |-> rankedChunks[i].chunk]
                   /\ spc' = "quotes"
                   /\ UNCHANGED sresp
    /\ UNCHANGED <<frontVars, chunkVars, intentVars,
                   lexVars, globalVars, svia, sdoc, schunks>>

\* getEmbedding(query) rejects.
SearchQueryEmbedFails ==
    /\ spc = "embedQuery"
    /\ mayFail
    /\ SearchEnds(IF svia = "route" THEN "500" ELSE "throw")
    /\ UNCHANGED <<frontVars, chunkVars, intentVars,
                   lexVars, globalVars, svia, sdoc, schunks,
                   sranked, handed>>

\* searchDocument resolves: its results are the answer.
SearchQuotesReturn ==
    /\ spc = "quotes"
    /\ SearchEnds(IF svia = "route" THEN "json" ELSE "return")
    /\ UNCHANGED <<frontVars, chunkVars, intentVars,
                   lexVars, globalVars, svia, sdoc, schunks,
                   sranked, handed>>

\* searchDocument rejects.
SearchQuotesFail ==
    /\ spc = "quotes"
    /\ mayFail
    /\ SearchEnds(IF svia = "route" THEN "500" ELSE "throw")
    /\ UNCHANGED <<frontVars, chunkVars, intentVars,
                   lexVars, globalVars, svia, sdoc, schunks,
                   sranked, handed>>

\* The vector of chunk c in the documents searched.
SearchVec(c) == ((c * 5) % 6) + 1

\* Documents searched: every assignment of a vector or of none to up to
\* MaxChunks chunks, and documents of up to MaxSearchChunks chunks with some
\* embeddings missing.
SearchWorlds ==
    { [n |-> Len(e), emb |-> [c \in 1 .. Len(e) |-> IF e[c] = NoVec THEN 2 ELSE e[c]],
       stored |-> e, mayFail |-> FALSE] :
         e \in UNION { [1 .. n -> {NoVec} \cup Vectors] : n \in 0 .. MaxChunks } }
    \cup
    { [n |-> n, emb |-> [c \in 1 .. n |-> SearchVec(c)],
       stored |-> [c \in 1 .. n |-> IF c \in missing THEN NoVec ELSE SearchVec(c)],
       mayFail |-> f] :
         n \in 0 .. MaxSearchChunks,
         missing \in { {}, {2}, {1, 3}, 1 .. MaxSearchChunks },
         f \in BOOLEAN }

InitSearch ==
    /\ ChunkOff
    /\ FrontOff
    /\ LexOff
    /\ GlobalOff
    /\ \E w \in SearchWorlds :
          /\ nChunks = w.n
          /\ embOf = w.emb
          /\ stored = w.stored
          /\ mayFail = w.mayFail
    /\ userIntent = "" /\ annotations = << >>
    /\ clientWaits = TRUE /\ runsLeft = 0 /\ nextRun = 1 /\ responses = << >>
    /\ EditOff
    /\ SlotsOff
    /\ \/ svia = "route" /\ sdoc \in DocIds
       \/ svia = "projectDocument" /\ sdoc \in ProjectDocIds
    /\ query \in {<< >>, <<"q">>}
    /\ schunks = << >> /\ sranked = << >> /\ handed = << >>
    /\ sresp = "none"
    /\ spc = "received"

NextSearch ==
    \/ SearchReceive
    \/ SearchGetDocument
    \/ SearchSelectProjectDocument
    \/ SearchSelectDocument
    \/ SearchSelectProject
    \/ SearchGetChunks
    \/ SearchQueryEmbedded
    \/ SearchQueryEmbedFails
    \/ SearchQuotesReturn
    \/ SearchQuotesFail

SpecSearch == InitSearch /\ [][NextSearch]_vars

----------------------------------------------------------------------------
\* isGarbledText

\* text.length below which the text is not judged.
GarbledMinLength == 100
\* Characters of the sample that is analysed.
SampleLength == 2000
\* Shortest run the pattern /[a-zA-Z]{3,}/ matches.
WordMinLength == 3
\* words.length above which the average word length is looked at, and the
\* average below which the words count as fragments.
ManyWords == 10
FragmentLength == 3

\* The class [a-zA-Z].
Letters ==
    {"a", "b", "c", "d", "e", "f", "g", "h", "i", "j", "k", "l", "m", "n", "o",
     "p", "q", "r", "s", "t", "u", "v", "w", "x", "y", "z",
     "A", "B", "C", "D", "E", "F", "G", "H", "I", "J", "K", "L", "M", "N", "O",
     "P", "Q", "R", "S", "T", "U", "V", "W", "X", "Y", "Z"}
IsLetter(c) == c \in Letters

\* The class [\[\]{}\\|^~`@#$%&*+=<>]; the grave accent, which no string of
\* this notation can hold, is written "grave".
BracketChars ==
    {"[", "]", "{", "}", "\\", "|", "^", "~", "grave", "@", "#", "$", "%", "&",
     "*", "+", "=", "<", ">"}

Least(S) == CHOOSE x \in S : \A y \in S : x <= y

\* String.prototype.match with /[a-zA-Z]{min,}/g, from lastIndex on: the
\* leftmost position where min letters follow each other starts a match, the
\* match takes every letter that follows, and the search goes on behind it.
RECURSIVE MatchAll(_, _, _)
MatchAll(s, lastIndex, min) ==
    LET starts == { p \in lastIndex .. (Len(s) - min) :
                       \A k \in 1 .. min : IsLetter(s[p + k]) }
    IN  IF starts = {} THEN << >>
        ELSE LET p == Least(starts)
                 e == Least({ q \in (p + min) .. Len(s) :
                                 q = Len(s) \/ ~IsLetter(s[q + 1]) })
             IN  <<[index |-> p, length |-> e - p]>> \o MatchAll(s, e, min)

\* const sample, without the slice.
SampleWhole(t) == t
\* const sample
Sample(t) == Slice(t, 0, SampleLength)

\* const words, matching runs of two letters as well.
MatchWordsOfTwo(sample) == MatchAll(sample, 0, WordMinLength - 1)
\* const words
MatchWords(sample) == MatchAll(sample, 0, WordMinLength)

\* const brackets (its length)
CountBrackets(sample) == Len(SelectSeq(sample, LAMBDA c : c \in BracketChars))

\* words.join("").length
RECURSIVE JoinedLength(_)
JoinedLength(words) ==
    IF words = << >> THEN 0 ELSE Head(words).length + JoinedLength(Tail(words))

\* sample.replace(/\s/g, "").length
TotalChars(sample) == Len(SelectSeq(sample, LAMBDA c : ~IsWhitespace(c)))

\* n / d, or 0 when d is 0, as the fraction <<numerator, denominator>>. The
\* quotients compared are those of integers up to SampleLength: none of them
\* lies within a rounding error of 0.4, 0.1 or 3 without being equal to it,
\* and the equal ones round to the very double the literal denotes, so the
\* comparisons of the doubles are those of the fractions.
Ratio(n, d) == IF d > 0 THEN <<n, d>> ELSE <<0, 1>>
Below(r, bound) == r[1] * bound[2] < bound[1] * r[2]
Above(r, bound) == r[1] * bound[2] > bound[1] * r[2]

\* The literals 0.4 and 0.1.
WordRatioMin == <<2, 5>>
BracketRatioMax == <<1, 10>>

\* wordRatio < 0.4
WordRatioLow(sample) ==
    Below(Ratio(JoinedLength(MatchWords(sample)), TotalChars(sample)), WordRatioMin)

\* bracketRatio > 0.1
BracketRatioHigh(sample) ==
    Above(Ratio(CountBrackets(sample), TotalChars(sample)), BracketRatioMax)

\* words.length > 10 && avgWordLen < 3
FragmentedWords(sample) ==
    LET words      == MatchWords(sample)
        avgWordLen == Ratio(JoinedLength(words), Len(words))
    IN  Len(words) > ManyWords /\ Below(avgWordLen, <<FragmentLength, 1>>)

isGarbledText(t) ==
    IF Len(t) = 0 \/ Len(t) < GarbledMinLength THEN FALSE
    ELSE LET sample == Sample(t)
         IN  \/ WordRatioLow(sample)
             \/ BracketRatioHigh(sample)
             \/ FragmentedWords(sample)

\* The call returns.
IsGarbled ==
    /\ gtpc = "call"
    /\ garbled' = isGarbledText(gtext)
    /\ gtpc' = "done"
    /\ UNCHANGED <<chunkVars, intentVars, searchVars, gtext, uploadVars, panelVars>>

----------------------------------------------------------------------------
\* Inputs of isGarbledText.

\* The unit u written k times.
Rep(u, k) == [i \in 1 .. k * Len(u) |-> u[((i - 1) % Len(u)) + 1]]

\* Four-letter words followed by a separator.
WordUnits == { <<"a", "b", "c", "d", " ">>, <<"A", "z", "Q", "x", "\n">> }

\* Texts of 100 characters besides the whitespace: k words of four letters,
\* b bracket characters, digits for the rest; k and b within MaxMargin of the
\* numbers at which wordRatio is 0.4 and bracketRatio is 0.1.
ThresholdTexts ==
    { Rep(u, k) \o Rep(<<"@">>, b) \o Rep(<<"1">>, 100 - 4 * k - b) :
        u \in WordUnits,
        k \in (10 - MaxMargin) .. (10 + MaxMargin),
        b \in (10 - MaxMargin) .. (10 + MaxMargin) }

\* Texts of many short runs of letters.
FragmentUnits ==
    { <<"a", "b", " ">>, <<"a", "b", "c", " ">>, <<"a", "b", "1", "c", "d", "e", " ">>,
      <<"a", " ">>, <<"a", "b", "c", "d", "e", "-">> }
FragmentTexts ==
    { Rep(u, n) \o Rep(v, m) :
        u \in FragmentUnits, v \in FragmentUnits, n \in {11, 25}, m \in {0, 30} }

\* Texts around the length of 100, texts without a letter of a to z, texts
\* of whitespace, and a text whose ratios depend on form feeds and no-break
\* spaces being whitespace.
EdgeTexts ==
    { Rep(u, n) :
        u \in { <<"@">>, <<"a", "b", "c">>, <<" ">>, <<" ", "a">> },
        n \in {0, 1, 33, 34, 50, 99, 100} }
    \cup { Rep(<<"@", "#", "$", "%">>, 25), Rep(<<"_", "1", "2", "3", " ">>, 30),
           Rep(<<"e", "t", "e", ",", " ">>, 30),
           Rep(<<"@", "1", "1", "1", "1", "1", "1", "1",
                 "\f", "u00A0", "\f", "u00A0", "\f", "u00A0", "\f", "u00A0">>, 7) }

\* Texts longer than the sample, whose head and whole differ.
LongTexts ==
    { Rep(<<"a">>, 2000) \o Rep(<<"@">>, n) : n \in {0, 300} }
    \cup { Rep(<<"1">>, 1250) \o Rep(<<"a">>, 750 + n) : n \in {0, 100} }
    \cup { Rep(<<"1">>, 1200) \o Rep(<<"a">>, 800 + n) : n \in {0, 1} }
    \cup { Rep(<<"@", "#", "$", "%">>, 500) \o Rep(<<"a", "b", "c", " ">>, n) :
             n \in {0, 50} }

InitGarbled ==
    /\ ChunkOff
    /\ IntentOff
    /\ SearchOff
    /\ UploadOff
    /\ PanelOff
    /\ gtext \in ThresholdTexts \cup FragmentTexts \cup EdgeTexts \cup LongTexts
    /\ garbled = FALSE
    /\ gtpc = "call"

NextGarbled == IsGarbled

SpecGarbled == InitGarbled /\ [][NextGarbled]_vars

----------------------------------------------------------------------------
\* POST /api/upload

\* Shortest fullText that is stored.
MinTextLength == 10

\* The positions of s that are in keep, in order.
KeptPositions(s, keep) == SelectSeq([i \in 1 .. Len(s) |-> i], LAMBDA i : i \in keep)

\* String.prototype.replace(/c+/g, " ") for the characters c of a class
\* (whitespace TRUE: /\s+/, FALSE: / +/): of every run of them only the first
\* stays, as a space.
CollapseRuns(s, whitespace) ==
    LET InClass(c) == IF whitespace THEN IsWhitespace(c) ELSE c = " "
        kept == KeptPositions(s, { i \in 1 .. Len(s) :
                                     ~InClass(s[i]) \/ i = 1 \/ ~InClass(s[i - 1]) })
    IN  [k \in 1 .. Len(kept) |-> IF InClass(s[kept[k]]) THEN " " ELSE s[kept[k]]]

\* String.prototype.replace(/c/g, to) for one character c.
ReplaceChar(s, c, to) == [i \in 1 .. Len(s) |-> IF s[i] = c THEN to ELSE s[i]]

\* String.prototype.replace(/\r\n/g, "\n")
ReplaceCrLf(s) ==
    LET kept == KeptPositions(s, { i \in 1 .. Len(s) :
                                     ~(s[i] = "\r" /\ i < Len(s) /\ s[i + 1] = "\n") })
    IN  [k \in 1 .. Len(kept) |-> s[kept[k]]]

\* String.prototype.trim()
Trim(s) ==
    LET solid == { i \in 1 .. Len(s) : ~IsWhitespace(s[i]) }
    IN  IF solid = {} THEN << >>
        ELSE SubSeq(s, CHOOSE i \in solid : \A j \in solid : i <= j,
                       CHOOSE i \in solid : \A j \in solid : i >= j)

\* extractTextFromTxt
extractTextFromTxt(content) ==
    Trim(CollapseRuns(ReplaceChar(ReplaceChar(ReplaceCrLf(content), "\r", "\n"),
                                  "\t", " "),
                      FALSE))

\* fullText.replace(/\s+/g, " ").trim()
CleanPdfText(t) == Trim(CollapseRuns(t, TRUE))

\* The test of the branch that parses a PDF.
IsPdfFile(f) == f.mimetype = "application/pdf" \/ f.ext = ".pdf"

\* !fullText || fullText.length < 10
TooShort(t) == Len(t) = 0 \/ Len(t) < MinTextLength

\* res.status(status).json(...): the handler is finished.
UploadEnds(status, cause) ==
    /\ uresp' = [status |-> status, cause |-> cause]
    /\ upc' = "done"

\* The text is checked for its length; storage.createDocument is awaited.
UploadAccept(t) ==
    /\ fullText' = t
    /\ IF TooShort(t)
       THEN UploadEnds(400, "short")
       ELSE upc' = "createDocument" /\ UNCHANGED uresp

\* The request arrives: 400 without a file; a PDF has parser.getText awaited;
\* any other file is decoded and cleaned by extractTextFromTxt.
UploadReceive ==
    /\ upc = "received"
    /\ IF ~file.present
       THEN UploadEnds(400, "nofile") /\ UNCHANGED fullText
       ELSE IF IsPdfFile(file)
            THEN upc' = "getText" /\ UNCHANGED <<uresp, fullText>>
            ELSE UploadAccept(extractTextFromTxt(file.content))
    /\ UNCHANGED <<chunkVars, intentVars, searchVars, garbleVars, panelVars, file,
                   documents, chunkRows, pending, summaryTask, mayThrow>>

\* parser.getText resolves: fullText is the text of the PDF as read;
\* parser.destroy is awaited.
UploadTextRead ==
    /\ upc = "getText"
    /\ fullText' = file.content
    /\ upc' = "destroy"
    /\ UNCHANGED <<chunkVars, intentVars, searchVars, garbleVars, panelVars, file,
                   documents, chunkRows, pending, summaryTask, mayThrow, uresp>>

\* parser.destroy resolves: the text is cleaned of its whitespace; garbled
\* text is answered 400.
UploadParsed ==
    /\ upc = "destroy"
    /\ LET cleaned == CleanPdfText(fullText)
       IN  IF isGarbledText(cleaned)
           THEN fullText' = cleaned /\ UploadEnds(400, "garbled")
           ELSE UploadAccept(cleaned)
    /\ UNCHANGED <<chunkVars, intentVars, searchVars, garbleVars, panelVars, file,
                   documents, chunkRows, pending, summaryTask, mayThrow>>

\* storage.createDocument resolves; chunkTextV2 cuts the text into n chunks,
\* and storage.createChunk is awaited for the first of them.
UploadCreateDocument ==
    /\ upc = "createDocument"
    /\ documents' = Append(documents,
                           [fullText |-> fullText, chunkCount |-> -1, summary |-> FALSE])
    /\ \E n \in 0 .. MaxUploadChunks :
          /\ pending' = [i \in 1 .. n |-> i]
          /\ upc' = IF n = 0 THEN "updateDocument" ELSE "createChunk"
    /\ UNCHANGED <<chunkVars, intentVars, searchVars, garbleVars, panelVars, file,
                   fullText, chunkRows, summaryTask, mayThrow, uresp>>

\* storage.createChunk resolves for the next chunk, stored without embedding.
UploadCreateChunk ==
    /\ upc = "createChunk"
    /\ chunkRows' = Append(chunkRows, [chunk |-> Head(pending), embedding |-> NoVec])
    /\ pending' = Tail(pending)
    /\ upc' = IF Tail(pending) = << >> THEN "updateDocument" ELSE "createChunk"
    /\ UNCHANGED <<chunkVars, intentVars, searchVars, garbleVars, panelVars, file,
                   fullText, documents, summaryTask, mayThrow, uresp>>

\* storage.updateDocument resolves with the chunk count; the summary is
\* started in the background and storage.getDocument is awaited.
UploadUpdateDocument ==
    /\ upc = "updateDocument"
    /\ documents' = [documents EXCEPT ![Len(documents)].chunkCount = Len(chunkRows)]
    /\ summaryTask' = "running"
    /\ upc' = "getDocument"
    /\ UNCHANGED <<chunkVars, intentVars, searchVars, garbleVars, panelVars, file,
                   fullText, chunkRows, pending, mayThrow, uresp>>

\* storage.getDocument resolves: res.json(updatedDoc).
UploadRespond ==
    /\ upc = "getDocument"
    /\ UploadEnds(200, "ok")
    /\ UNCHANGED <<chunkVars, intentVars, searchVars, garbleVars, panelVars, file,
                   fullText, documents, chunkRows, pending, summaryTask, mayThrow>>

\* The parser or the storage rejects: the catch block answers 500.
UploadFails ==
    /\ upc \in {"getText", "destroy", "createDocument", "createChunk",
                "updateDocument", "getDocument"}
    /\ mayThrow
    /\ UploadEnds(500, "error")
    /\ UNCHANGED <<chunkVars, intentVars, searchVars, garbleVars, panelVars, file,
                   fullText, documents, chunkRows, pending, summaryTask, mayThrow>>

\* generateDocumentSummary resolves: the callback of .then calls
\* storage.updateDocument with the summary and awaits it.
SummaryResolves ==
    /\ summaryTask = "running"
    /\ summaryTask' = "updateDocument"
    /\ UNCHANGED <<chunkVars, intentVars, searchVars, garbleVars, panelVars, file,
                   fullText, documents, chunkRows, pending, mayThrow, uresp, upc>>

\* storage.updateDocument of the callback resolves: the summary is stored
\* with the document.
SummaryStored ==
    /\ summaryTask = "updateDocument"
    /\ documents' = [documents EXCEPT ![Len(documents)].summary = TRUE]
    /\ summaryTask' = "done"
    /\ UNCHANGED <<chunkVars, intentVars, searchVars, garbleVars, panelVars, file,
                   fullText, chunkRows, pending, mayThrow, uresp, upc>>

\* generateDocumentSummary rejects, or storage.updateDocument of the callback
\* does: nothing catches the rejection.
SummaryFails ==
    /\ summaryTask \in {"running", "updateDocument"}
    /\ mayThrow
    /\ summaryTask' = "failed"
    /\ UNCHANGED <<chunkVars, intentVars, searchVars, garbleVars, panelVars, file,
                   fullText, documents, chunkRows, pending, mayThrow, uresp, upc>>

----------------------------------------------------------------------------
\* Files uploaded.

\* The text of a file: readable, garbled, short, and texts whose whitespace
\* the cleaning changes.
FileTexts ==
    { Rep(<<"a", "b", "c", "d", " ">>, 24),
      Rep(<<"@">>, 100),
      Rep(<<"@", "#", " ", " ">>, 60),
      Rep(<<"@">>, 60) \o Rep(<<" ">>, 50),
      Rep(<<"a", "b", "c", "\r", "\n", "\t", " ">>, 20),
      Rep(<<"a", "\r">>, 8),
      Rep(<<"a", "b", "c", "\f", "u00A0", " ">>, 20),
      <<"\f">> \o Rep(<<"a", "b", "c">>, 3) \o <<"u00A0">>,
      Rep(<<"a", "b", "c">>, 3),
      Rep(<<" ", "\n">>, 60),
      << >> }

\* The files the fileFilter of multer lets through to the handler.
AllowedFiles ==
    { [present |-> TRUE, mimetype |-> m, ext |-> e, content |-> t] :
        m \in {"application/pdf", "text/plain", "application/octet-stream"},
        e \in {".pdf", ".txt", ".PDF"},
        t \in FileTexts }

InitUpload ==
    /\ ChunkOff
    /\ IntentOff
    /\ SearchOff
    /\ GarbleOff
    /\ PanelOff
    /\ file \in AllowedFiles \cup {NoFile}
    /\ mayThrow \in BOOLEAN
    /\ fullText = << >>
    /\ documents = << >>
    /\ chunkRows = << >>
    /\ pending = << >>
    /\ summaryTask = "none"
    /\ uresp = NoUploadResponse
    /\ upc = "received"

NextUpload ==
    \/ UploadReceive
    \/ UploadTextRead
    \/ UploadParsed
    \/ UploadCreateDocument
    \/ UploadCreateChunk
    \/ UploadUpdateDocument
    \/ UploadRespond
    \/ UploadFails
    \/ SummaryResolves
    \/ SummaryStored
    \/ SummaryFails

SpecUpload == InitUpload /\ [][NextUpload]_vars

----------------------------------------------------------------------------
\* SearchPanel

\* Results shown before "Show more" is asked for.
ShownResults == 5

\* const displayedResults, const hasMoreResults
displayedResults ==
    IF showAllResults THEN panelResults ELSE Slice(panelResults, 0, ShownResults)
hasMoreResults == Len(panelResults) > ShownResults

\* The queries typed.
PanelQueries == { << >>, <<" ">>, <<"q">>, <<" ", "q", " ">> }

\* The texts of the suggestion buttons.
Suggestions ==
    <<<<"F", "i", "n", "d", " ", "q", "u", "o", "t", "e", "s", " ", "a", "b",
        "o", "u", "t", ".", ".", ".">>,
      <<"W", "h", "a", "t", " ", "a", "r", "e", " ", "t", "h", "e", " ", "m",
        "a", "i", "n", " ", "a", "r", "g", "u", "m", "e", "n", "t", "s", "?">>,
      <<"S", "u", "m", "m", "a", "r", "i", "z", "e", " ", "t", "h", "e", " ",
        "m", "e", "t", "h", "o", "d", "o", "l", "o", "g", "y">>,
      <<"F", "i", "n", "d", " ", "e", "v", "i", "d", "e", "n", "c", "e", " ",
        "f", "o", "r", ".", ".", ".">>>>

\* The array the k-th onSearch call resolves with, of n results.
SearchResults(k, n) == [i \in 1 .. n |-> [call |-> k, rank |-> i]]

\* The parent passes another documentId.
SelectDocument ==
    /\ \E d \in {"", "d1"} : d # panelDocumentId /\ panelDocumentId' = d
    /\ UNCHANGED <<chunkVars, intentVars, searchVars, garbleVars, uploadVars,
                   panelQuery, panelResults, isSearching, showAllResults, calls,
                   submits>>

\* onChange of the input, enabled with a document and while no search runs.
ChangeQuery ==
    /\ panelDocumentId # "" /\ ~isSearching
    /\ \E q \in PanelQueries : q # panelQuery /\ panelQuery' = q
    /\ UNCHANGED <<chunkVars, intentVars, searchVars, garbleVars, uploadVars,
                   panelDocumentId, panelResults, isSearching, showAllResults,
                   calls, submits>>

\* onClick of one of the suggestion buttons, enabled with a document.
ClickSuggestion ==
    /\ panelDocumentId # ""
    /\ \E i \in 1 .. Len(Suggestions) :
          Suggestions[i] # panelQuery /\ panelQuery' = Suggestions[i]
    /\ UNCHANGED <<chunkVars, intentVars, searchVars, garbleVars, uploadVars,
                   panelDocumentId, panelResults, isSearching, showAllResults,
                   calls, submits>>

\* onClick of the "Show more" / "Show less" button.
ToggleShowAll ==
    /\ Len(panelResults) > 0 /\ hasMoreResults
    /\ showAllResults' = ~showAllResults
    /\ UNCHANGED <<chunkVars, intentVars, searchVars, garbleVars, uploadVars,
                   panelDocumentId, panelQuery, panelResults, isSearching, calls,
                   submits>>

\* handleSearch up to its await: a submit event of the form. Nothing happens
\* with a blank query or without document; otherwise isSearching is set and
\* onSearch(query) is called.
HandleSearch ==
    /\ submits < MaxSubmits
    /\ submits' = submits + 1
    /\ IF ~NonBlank(panelQuery) \/ panelDocumentId = ""
       THEN UNCHANGED <<isSearching, calls>>
       ELSE /\ isSearching' = TRUE
            /\ calls' = Append(calls, [query |-> panelQuery, state |-> "pending",
                                       value |-> << >>])
    /\ UNCHANGED <<chunkVars, intentVars, searchVars, garbleVars, uploadVars,
                   panelDocumentId, panelQuery, panelResults, showAllResults>>

\* The promise of the k-th onSearch call is fulfilled: the try block goes on,
\* then the finally block.
SearchResolves(k) ==
    /\ k \in DOMAIN calls
    /\ calls[k].state = "pending"
    /\ \E n \in {0, 1, MaxPanelResults} :
          /\ calls' = [calls EXCEPT ![k].state = "fulfilled",
                                    ![k].value = SearchResults(k, n)]
          /\ panelResults' = SearchResults(k, n)
    /\ showAllResults' = FALSE
    /\ isSearching' = FALSE
    /\ UNCHANGED <<chunkVars, intentVars, searchVars, garbleVars, uploadVars,
                   panelDocumentId, panelQuery, submits>>

\* SearchRejects without the finally block.
SearchRejectsStuck(k) ==
    /\ k \in DOMAIN calls
    /\ calls[k].state = "pending"
    /\ calls' = [calls EXCEPT ![k].state = "rejected"]
    /\ UNCHANGED <<chunkVars, intentVars, searchVars, garbleVars, uploadVars,
                   panelDocumentId, panelQuery, panelResults, isSearching,
                   showAllResults, submits>>

\* The promise of the k-th onSearch call is rejected: the catch block logs
\* the error, then the finally block.
SearchRejects(k) ==
    /\ k \in DOMAIN calls
    /\ calls[k].state = "pending"
    /\ calls' = [calls EXCEPT ![k].state = "rejected"]
    /\ isSearching' = FALSE
    /\ UNCHANGED <<chunkVars, intentVars, searchVars, garbleVars, uploadVars,
                   panelDocumentId, panelQuery, panelResults, showAllResults,
                   submits>>

InitPanel ==
    /\ ChunkOff
    /\ IntentOff
    /\ SearchOff
    /\ GarbleOff
    /\ UploadOff
    /\ panelDocumentId \in {"", "d1"}
    /\ panelQuery = << >>
    /\ panelResults = << >>
    /\ isSearching = FALSE
    /\ showAllResults = FALSE
    /\ calls = << >>
    /\ submits = 0

NextPanel ==
    \/ SelectDocument
    \/ ChangeQuery
    \/ ClickSuggestion
    \/ ToggleShowAll
    \/ HandleSearch
    \/ \E k \in 1 .. MaxSubmits : SearchResolves(k)
    \/ \E k \in 1 .. MaxSubmits : SearchRejects(k)

SpecPanel == InitPanel /\ [][NextPanel]_vars

----------------------------------------------------------------------------
Init ==
    InitChunk \/ InitIntent \/ InitConcurrent \/ InitLexical \/ InitGlobal
        \/ InitSearch \/ InitGarbled \/ InitUpload \/ InitPanel
Next ==
    NextChunk \/ NextIntent \/ NextLexical \/ NextGlobal \/ NextSearch
        \/ NextGarbled \/ NextUpload \/ NextPanel
Spec == Init /\ [][Next]_vars

----------------------------------------------------------------------------
\* Claims about chunkText.

Returned == cpc = "done"

\* C1: every chunk returned by chunkText has
\* 0 <= startPosition < endPosition <= len(text).
C1_PositionsInText ==
    Returned =>
        \A i \in 1 .. Len(chunks) :
            /\ 0 <= chunks[i].startPosition
            /\ chunks[i].startPosition < chunks[i].endPosition
            /\ chunks[i].endPosition <= Len(text)

\* C2: a non-empty text shorter than chunkSize yields exactly one chunk, with
\* startPosition 0 and endPosition len(text).
C2_ShortTextOneChunk ==
    (Returned /\ Len(text) > 0 /\ Len(text) < chunkSize) =>
        /\ Len(chunks) = 1
        /\ chunks[1].startPosition = 0
        /\ chunks[1].endPosition = Len(text)

\* C3: whenever chunkText returns, the chunks it returns are in strictly
\* increasing startPosition order.
C3_StartsIncrease ==
    Returned =>
        \A i \in 1 .. Len(chunks) - 1 :
            chunks[i].startPosition < chunks[i + 1].startPosition

\* C4: called with overlap >= chunkSize, chunkText does not go through the
\* loop again without having moved the cursor forward.
C4_OverlapTooLargeProgress ==
    [][(overlap >= chunkSize /\ cpc = "loop" /\ cpc' = "loop")
          => start' > start]_vars

InScenario ==
    /\ Returned
    /\ Len(text) = 1200
    /\ chunkSize = DefaultChunkSize
    /\ overlap = DefaultOverlap

\* The chunks cover every position of [0, n).
Covers(cs, n) ==
    \A pos \in 0 .. n - 1 :
        \E i \in 1 .. Len(cs) :
            cs[i].startPosition <= pos /\ pos < cs[i].endPosition

\* Each chunk starts DefaultOverlap characters before the end of the previous.
OverlappingTails(cs) ==
    \A i \in 1 .. Len(cs) - 1 :
        cs[i + 1].startPosition = cs[i].endPosition - DefaultOverlap

\* t has no run of k consecutive whitespace characters.
NoBlankRun(t, k) ==
    \A i \in 1 .. Len(t) - k + 1 :
        \E j \in i .. i + k - 1 : ~IsWhitespace(t[j])

\* C5 as stated: every 1200-character text chunked with (500, 50) yields
\* exactly 3 non-blank chunks with 50-character overlapping tails that cover
\* [0, 1200).
C5_ScenarioAnyText ==
    InScenario =>
        /\ Len(chunks) = 3
        /\ \A i \in 1 .. Len(chunks) : NonBlank(chunks[i].text)
        /\ OverlappingTails(chunks)
        /\ Covers(chunks, 1200)

\* C5 amended: a 1200-character text chunked with (500, 50) takes 3 loop
\* iterations and yields at most 3 chunks, all non-blank; when the text has no
\* run of 196 or more whitespace characters it yields exactly 3 chunks, each
\* starting 50 characters before the end of the previous one, and together
\* covering [0, 1200).
C5_ScenarioChunks ==
    InScenario =>
        /\ iter = 3
        /\ Len(chunks) <= 3
        /\ \A i \in 1 .. Len(chunks) : NonBlank(chunks[i].text)
        /\ NoBlankRun(text, 196) =>
              /\ Len(chunks) = 3
              /\ OverlappingTails(chunks)
              /\ Covers(chunks, 1200)

C5_Witness ==
    /\ InScenario
    /\ NoBlankRun(text, 196)
    /\ Len(chunks) = 3
    /\ chunks[1].endPosition # DefaultChunkSize
    /\ \E i \in 1 .. Len(text) : IsWhitespace(text[i])

----------------------------------------------------------------------------
\* Claims about the set-intent handler.

\* The request in slot r has ranked and selected its chunks.
HasRanked(r) == Len(ranked[r]) > 0

\* The similarity of chunk c to the intent, in tenths.
SimilarityOf(c) == cosineSimilarity(embOf[c], QueryVec)

\* The position of chunk c in a ranked list.
PosIn(rankedChunks, c) ==
    CHOOSE j \in 1 .. Len(rankedChunks) : rankedChunks[j].chunk = c

\* sel holds, in ranked order, the first chunks of similarity >= floor of the
\* ranked list, up to max of them (all of them when max is NoLimit).
IsSelection(sel, rankedChunks, floor, max) ==
    LET eligible == { c \in ChunkIds : SimilarityOf(c) >= floor }
        want     == IF max = NoLimit THEN Cardinality(eligible)
                    ELSE Min(max, Cardinality(eligible))
    IN  /\ Len(sel) = want
        /\ \A i \in 1 .. Len(sel) :
              /\ sel[i] \in eligible
              /\ Cardinality({ j \in 1 .. PosIn(rankedChunks, sel[i]) :
                                 rankedChunks[j].chunk \in eligible }) = i

\* C6: the chunks handed to the pipeline are the ranked chunks of similarity
\* >= the floor of the level (0.1 for exhaustive, 0.3 otherwise), cut to the
\* first maxChunks of the level, in ranked order; similarities [0.9, 0.5, 0.2]
\* at level standard select the chunks of 0.9 and 0.5, in that order.
C6_TopChunksSelection ==
    \A r \in Reqs :
        HasRanked(r) =>
            /\ IsSelection(top[r], ranked[r],
                           IF level[r] = "exhaustive" THEN 1 ELSE 3,
                           getMaxChunksForLevel(level[r]))
            /\ (embOf = <<1, 2, 4>> /\ level[r] = "standard") => top[r] = <<1, 2>>

C6_Witness ==
    \E r \in Reqs :
        /\ rpc[r] = "pipeline"
        /\ embOf = <<1, 2, 4>>
        /\ level[r] = "standard"
        /\ top[r] = <<1, 2>>

\* C7: the ranked list holds every chunk once, in non-increasing order of
\* similarity, chunks of equal similarity in their original order.
C7_RankedStableDescending ==
    \A r \in Reqs :
        HasRanked(r) =>
            /\ Len(ranked[r]) = nChunks
            /\ \A c \in ChunkIds : \E i \in 1 .. nChunks : ranked[r][i].chunk = c
            /\ \A i \in 1 .. nChunks :
                  ranked[r][i].similarity = SimilarityOf(ranked[r][i].chunk)
            /\ \A i, j \in 1 .. nChunks :
                  i < j =>
                     \/ ranked[r][i].similarity > ranked[r][j].similarity
                     \/ /\ ranked[r][i].similarity = ranked[r][j].similarity
                        /\ ranked[r][i].chunk < ranked[r][j].chunk

C7_Witness ==
    \E r \in Reqs :
        /\ HasRanked(r)
        /\ nChunks = 3
        /\ ranked[r][1].chunk = 2
        /\ ranked[r][2].chunk = 3
        /\ ranked[r][1].similarity = ranked[r][2].similarity
        /\ ranked[r][3].chunk = 1

\* C8: for the same ranked chunks, level exhaustive never selects fewer chunks
\* than level standard.
C8_ExhaustiveNotFewer ==
    \A r \in Reqs :
        HasRanked(r) =>
            /\ Len(SelectTop(ranked[r], "exhaustive"))
                  >= Len(SelectTop(ranked[r], "standard"))
            /\ level[r] = "exhaustive"
                  => Len(top[r]) >= Len(SelectTop(ranked[r], "standard"))
            /\ level[r] = "standard"
                  => Len(top[r]) <= Len(SelectTop(ranked[r], "exhaustive"))

C8_Witness ==
    \E r \in Reqs :
        /\ HasRanked(r)
        /\ level[r] = "exhaustive"
        /\ nChunks = 35
        /\ Len(top[r]) = 35
        /\ Len(SelectTop(ranked[r], "standard")) = 30

\* The request in slot r names no valid thoroughness level.
InvalidLevel(r) ==
    /\ rpc[r] \notin {"idle", "off"}
    /\ req[r].thoroughness \notin {"quick", "standard", "thorough", "exhaustive"}

\* The response to the request in slot r, when it has been answered.
ResponseOf(r) ==
    LET i == CHOOSE i \in 1 .. Len(responses) : responses[i].run = run[r]
    IN  responses[i]

\* C9: a request whose thoroughness is absent or not a level is served as
\* level standard: it selects what standard selects, and it is answered with
\* an error only when the intent, the document or its chunks are missing or a
\* collaborator failed.
C9_InvalidLevelIsStandard ==
    \A r \in Reqs :
        InvalidLevel(r) =>
            /\ level[r] = "standard"
            /\ HasRanked(r) => IsSelection(top[r], ranked[r], 3, 30)
            /\ (rpc[r] = "responded" /\ ResponseOf(r).status # 200) =>
                  \/ req[r].intent = ""
                  \/ req[r].docId # "d1"
                  \/ nChunks = 0
                  \/ mayFail

C9_Witness ==
    \E r \in Reqs :
        /\ req[r].thoroughness = "bogus"
        /\ rpc[r] = "pipeline"
        /\ nChunks = 35
        /\ Len(top[r]) = 30

\* Some request answered 200 before the request in slot r arrived.
SucceededBefore(r) ==
    \E i \in 1 .. Len(responses) :
        responses[i].status = 200 /\ responses[i].run < run[r]

\* Within a request that reaches the ranking, a chunk read without embedding
\* has had one getEmbedding call and one updateChunkEmbedding write, and the
\* vector is stored; a chunk read with its embedding has had no call and no
\* write.
EmbeddedOnceBeforeRanking(r) ==
    /\ HasRanked(r) =>
          \A c \in ChunkIds :
              IF snap[r][c] = NoVec
              THEN /\ embedCalls[r][c] = 1
                   /\ embedWrites[r][c] = 1
                   /\ stored[c] = embOf[c]
              ELSE /\ embedCalls[r][c] = 0
                   /\ embedWrites[r][c] = 0
    /\ \A c \in DOMAIN snap[r] \cap DOMAIN embedCalls[r] :
          snap[r][c] # NoVec => embedCalls[r][c] = 0 /\ embedWrites[r][c] = 0

NoEmbedCalls(r) == \A c \in DOMAIN embedCalls[r] : embedCalls[r][c] = 0

\* C10 as stated: chunks are embedded once before the ranking, and a request
\* issued after an earlier request completed makes no embedding call.
C10_SecondRequestNeverEmbeds ==
    \A r \in Reqs :
        /\ EmbeddedOnceBeforeRanking(r)
        /\ run[r] >= 2 => NoEmbedCalls(r)

\* C10 amended: chunks are embedded once before the ranking, and a request
\* issued after an earlier request was answered 200 makes no embedding call.
C10_EmbedOncePerChunk ==
    \A r \in Reqs :
        /\ EmbeddedOnceBeforeRanking(r)
        /\ SucceededBefore(r) => NoEmbedCalls(r)

C10_Witness ==
    \E r \in Reqs :
        /\ SucceededBefore(r)
        /\ HasRanked(r)
        /\ mayFail
        /\ nChunks = MaxCacheChunks

----------------------------------------------------------------------------
\* Claims about concurrent requests and provider failures.

\* The handler is serving the request of slot r.
Running(r) == rpc[r] \notin {"idle", "responded", "off"}

\* C11: while two set-intent requests on the same document run concurrently,
\* the embedding provider has been called at most once for each chunk and each
\* chunk's embedding has been written at most once, the two requests taken
\* together.
C11_EmbedOnceAcrossRequests ==
    \A r, s \in Reqs :
        (r # s /\ Running(r) /\ Running(s)) =>
            \A c \in DOMAIN embedCalls[r] \cap DOMAIN embedCalls[s] :
                /\ embedCalls[r][c] + embedCalls[s][c] <= 1
                /\ embedWrites[r][c] + embedWrites[s][c] <= 1

\* The embedding provider failed during the request of slot r: a callback of
\* chunks.map was rejected, or the request was answered from the catch block
\* with the provider's error.
ProviderFailed(r) ==
    \/ \E c \in DOMAIN task[r] : task[r][c] = "failed"
    \/ /\ rpc[r] = "responded"
       /\ ResponseOf(r).cause = "embedding"

\* C12: when the embedding provider fails during a request, for the intent or
\* for a chunk, the request is answered 500 without having ranked anything, no
\* annotation is created by it, the chunk whose call failed is not written,
\* and every stored vector is the one the provider returns for its chunk.
C12_ProviderFailure ==
    /\ \A c \in ChunkIds : stored[c] # NoVec => stored[c] = embOf[c]
    /\ \A r \in Reqs :
          ProviderFailed(r) =>
              /\ rpc[r] = "responded"
              /\ ResponseOf(r).status = 500
              /\ ranked[r] = << >>
              /\ \A i \in 1 .. Len(annotations) : annotations[i].by # run[r]
              /\ \A c \in DOMAIN task[r] :
                    task[r][c] = "failed" => embedWrites[r][c] = 0

C12_Witness ==
    \E r \in Reqs :
        /\ nChunks = 2
        /\ DOMAIN task[r] = 1 .. 2
        /\ ProviderFailed(r)
        /\ task[r][1] = "failed"
        /\ task[r][2] = "done"
        /\ stored[2] = embOf[2]
        /\ stored[1] = NoVec
        /\ annotations = <<UserAnnotation, OldAiAnnotation>>

----------------------------------------------------------------------------
\* Claims about textMatchScore.

\* t contains q as a substring.
Contains(t, q) ==
    \E p \in 0 .. Len(t) - Len(q) : \A i \in 1 .. Len(q) : t[p + i] = q[i]

\* s with its letters folded to one case: the lower-case form, in which the
\* final sigma, a form of the small sigma, is written as the small sigma.
FoldCase(s) ==
    LET lower == toLowerCase(s)
    IN  [i \in 1 .. Len(lower) |->
            IF lower[i] = "u03C2" THEN "u03C3" ELSE lower[i]]

\* t contains q as a case-insensitive substring.
ContainsIgnoringCase(t, q) == Contains(FoldCase(t), FoldCase(q))

\* The words of q longer than 2 characters, each named by the positions of
\* its first and last character: the maximal runs of non-whitespace.
ReferenceWords(q) ==
    { w \in (1 .. Len(q)) \X (1 .. Len(q)) :
        /\ w[2] - w[1] + 1 > 2
        /\ \A i \in w[1] .. w[2] : ~IsWhitespace(q[i])
        /\ w[1] = 1 \/ IsWhitespace(q[w[1] - 1])
        /\ w[2] = Len(q) \/ IsWhitespace(q[w[2] + 1]) }

WordAt(q, w) == SubSeq(q, w[1], w[2])

\* The words of the query longer than 2 characters, in lower case.
LowerWords(q) == ReferenceWords(toLowerCase(q))

\* The reference lexical score.
ReferenceScore(q, t) ==
    LET W       == LowerWords(q)
        matched == { w \in W :
                         Contains(toLowerCase(t), WordAt(toLowerCase(q), w)) }
    IN  IF ContainsIgnoringCase(t, q) THEN <<1022, 6553, 4915, 1638, 3277>>
        ELSE IF W = {} THEN DoubleZero
        ELSE IF 2 * Cardinality(matched) >= Cardinality(W)
             THEN DoubleTimes(<<1022, 1638, 3276, 6553, 4915>>,
                              DoubleDivide(Cardinality(matched), Cardinality(W)))
             ELSE DoubleZero

\* C13: textMatchScore(query, text) is the reference lexical score: 0.9 for a
\* text that contains the query as a case-insensitive substring; otherwise 0
\* without query words, 0.6 * (matched / |W|) when at least half of the query
\* words occur in the lower-cased text, and 0 when fewer do.
C13_ReferenceScoreExact ==
    lpc = "done" => score = ReferenceScore(query, candidate)

\* C14 as stated: a query without a word longer than 2 characters scores 0
\* against every text.
C14_NoWordsScoreZero ==
    (lpc = "done" /\ LowerWords(query) = {}) => score = DoubleZero

\* C14 amended: a query without a word longer than 2 characters scores 0
\* against every text whose lower-case form does not contain the lower-case
\* form of the query, and 0.6 + 0.3 = 0.8999999999999999 against every text
\* whose lower-case form contains it; the empty query scores
\* 0.8999999999999999 against every text.
C14_NoWordsScore ==
    (lpc = "done" /\ LowerWords(query) = {}) =>
        /\ score = IF Contains(toLowerCase(candidate), toLowerCase(query))
                   THEN <<1022, 6553, 4915, 1638, 3276>> ELSE DoubleZero
        /\ query = << >> => score = <<1022, 6553, 4915, 1638, 3276>>

C14_Witness ==
    /\ lpc = "done"
    /\ query = <<"u03A3">>
    /\ candidate = <<"u039F", "u0394", "u039F", "u03A3">>
    /\ score = DoubleZero

----------------------------------------------------------------------------
\* Claims about globalSearch.

\* The index of the row of id `id` in a table.
RowIndex(rows, id) == CHOOSE i \in 1 .. Len(rows) : rows[i].id = id

\* The place of a record's source in the pooling order: the project, the
\* folders, the documents, the annotations, each table in its own order.
PoolPosition(rec) ==
    IF rec.type = "folder_context"
    THEN IF rec.folderId = "" THEN 0 ELSE RowIndex(gdb.folders, rec.folderId)
    ELSE IF rec.type = "document_context"
    THEN Len(gdb.folders) + RowIndex(gdb.projectDocs, rec.documentId)
    ELSE Len(gdb.folders) + Len(gdb.projectDocs)
           + RowIndex(gdb.annotations, rec.annotationId)

\* C15: for a limit >= 0 (20 when none is given) globalSearch returns the
\* first min(limit, n) records of the pool of the n matched records sorted by
\* non-increasing similarityScore, records of equal score in pooling order,
\* and totalResults = n.
C15_SortedTruncated ==
    LET n   == Len(results)
        lim == IF limit.given THEN limit.value ELSE 20
    IN  (gpc = "done" /\ lim >= 0) =>
            /\ gresp.totalResults = n
            /\ Len(gresp.results) = Min(lim, n)
            /\ \A i \in 1 .. Len(gresp.results) : gresp.results[i] = results[i]
            /\ \A i, j \in 1 .. n :
                  i < j =>
                     \/ DoubleCompare(results[i].similarityScore,
                                      results[j].similarityScore) > 0
                     \/ /\ results[i].similarityScore = results[j].similarityScore
                        /\ PoolPosition(results[i]) < PoolPosition(results[j])

C15_Witness ==
    /\ gpc = "done"
    /\ limit = [given |-> TRUE, value |-> 2]
    /\ gresp.totalResults = 4
    /\ Len(gresp.results) = 2
    /\ results[1].type = "document_context"
    /\ results[2].type = "annotation"
    /\ results[1].similarityScore = results[2].similarityScore
    /\ results[3].type = "folder_context" /\ results[3].folderId = ""
    /\ results[4].folderId = "f1"
    /\ results[3].similarityScore = results[4].similarityScore
    /\ DoubleCompare(results[2].similarityScore, results[3].similarityScore) > 0

\* C16: called with a project id no project has, globalSearch returns
\* results = [] and totalResults = 0, whatever the query, the filters and the
\* limit, and reads no other table.
C16_UnknownProject ==
    gdb.project.id # projectId =>
        /\ gpc \in {"project", "done", "off"}
        /\ results = << >>
        /\ gpc = "done" => gresp = [results |-> << >>, totalResults |-> 0]

C16_Witness ==
    /\ gpc = "done"
    /\ projectId = "nope"
    /\ query = CatDog
    /\ filters.folderIds = Given({"f1"})
    /\ filters.categories.given
    /\ Len(gdb.annotations) = 2
    /\ gresp.totalResults = 0

\* The folder of the project document of id `id`, "" when it has none.
FolderOfDocument(id) == gdb.projectDocs[RowIndex(gdb.projectDocs, id)].folderId

\* C17: when a folder-id allow-list is given, every returned document_context
\* and annotation record belongs to a project document whose folder id is in
\* the list, and every returned folder record has its folder id in the list.
C17_FolderAllowList ==
    (gpc = "done" /\ filters.folderIds.given) =>
        \A i \in 1 .. Len(gresp.results) :
            LET rec == gresp.results[i]
            IN  /\ rec.type \in {"document_context", "annotation"} =>
                      FolderOfDocument(rec.documentId) \in filters.folderIds.ids
                /\ (rec.type = "folder_context" /\ rec.folderId # "") =>
                      rec.folderId \in filters.folderIds.ids

\* The row of the annotation of id `id`.
AnnotationOf(id) == gdb.annotations[RowIndex(gdb.annotations, id)]

\* C18: the filters combine with AND: every returned annotation record has
\* its category in the category list and its document in the document-id
\* list, every returned document_context record has its document in the
\* document-id list, whenever these lists are given, alone or together with a
\* folder-id list; and no record that fails a given filter is returned, so
\* none of a folder, a document or an annotation outside a given folder-id
\* list.
C18_FiltersConjoined ==
    gpc = "done" =>
        \A i \in 1 .. Len(gresp.results) :
            LET rec == gresp.results[i]
            IN  /\ (rec.type = "annotation" /\ filters.categories.given) =>
                      AnnotationOf(rec.annotationId).category \in filters.categories.ids
                /\ (rec.type = "annotation" /\ filters.documentIds.given) =>
                      AnnotationOf(rec.annotationId).projectDocumentId
                          \in filters.documentIds.ids
                /\ (rec.type = "document_context" /\ filters.documentIds.given) =>
                      rec.documentId \in filters.documentIds.ids
                /\ (rec.type \in {"document_context", "annotation"}
                      /\ filters.folderIds.given) =>
                      FolderOfDocument(rec.documentId) \in filters.folderIds.ids
                /\ (rec.type = "folder_context" /\ rec.folderId # ""
                      /\ filters.folderIds.given) =>
                      rec.folderId \in filters.folderIds.ids

\* The number of records of the pool that satisfy P.
CountRecords(P(_)) == Cardinality({ i \in 1 .. Len(results) : P(results[i]) })

\* C19: every source that passes the filters and has a non-zero lexical score
\* has exactly one record in the pool, and the others none: the project's own
\* text (context summary, thesis, name), each folder, each project document
\* and each annotation of the project.
C19_EverySourceOneRecord ==
    (gpc = "done" /\ gdb.project.id = projectId) =>
        /\ CountRecords(LAMBDA rec : rec.type = "folder_context" /\ rec.folderId = "")
             = IF textMatchScore(query,
                     JoinFields(<<gdb.project.contextSummary, gdb.project.thesis,
                                  gdb.project.name>>)) # DoubleZero
               THEN 1 ELSE 0
        /\ \A k \in 1 .. Len(gdb.folders) :
              LET folder == gdb.folders[k]
              IN  CountRecords(LAMBDA rec : rec.type = "folder_context"
                                              /\ rec.folderId = folder.id)
                    = IF /\ folder.projectId = projectId
                         /\ FolderPasses(filters, folder)
                         /\ textMatchScore(query, folder.name) # DoubleZero
                      THEN 1 ELSE 0
        /\ \A k \in 1 .. Len(gdb.projectDocs) :
              LET row == gdb.projectDocs[k]
              IN  CountRecords(LAMBDA rec : rec.type = "document_context"
                                              /\ rec.documentId = row.id)
                    = IF /\ row.projectId = projectId
                         /\ DocumentPasses(filters, row)
                         /\ textMatchScore(query, row.filename) # DoubleZero
                      THEN 1 ELSE 0
        /\ \A k \in 1 .. Len(gdb.annotations) :
              LET annotation == gdb.annotations[k]
              IN  CountRecords(LAMBDA rec : rec.type = "annotation"
                                              /\ rec.annotationId = annotation.id)
                    = IF /\ \E d \in 1 .. Len(gdb.projectDocs) :
                               /\ gdb.projectDocs[d].id = annotation.projectDocumentId
                               /\ gdb.projectDocs[d].projectId = projectId
                               /\ DocumentPasses(filters, gdb.projectDocs[d])
                         /\ ~(filters.categories.given
                                /\ annotation.category \notin filters.categories.ids)
                         /\ textMatchScore(query, annotation.highlightedText) # DoubleZero
                      THEN 1 ELSE 0

----------------------------------------------------------------------------
\* Claims about the single-document search.

\* The search has ranked the chunks and gone on with them.
SearchHasRanked ==
    \/ spc = "quotes"
    \/ spc = "done" /\ sresp \in {"json", "return"}

\* C20: the chunks the single-document search hands to the quote extractor
\* are at most 5, they are the chunks of the document most similar to the
\* query, in non-increasing order of similarity, and they are all the chunks
\* of the document when it has fewer than 5.
C20_TopFiveOfDocument ==
    SearchHasRanked =>
        /\ Len(handed) = Min(5, nChunks)
        /\ \A i \in 1 .. Len(handed) : handed[i] \in ChunkIds
        /\ \A i, j \in 1 .. Len(handed) : i < j => handed[i] # handed[j]
        /\ \A i \in 1 .. Len(handed) - 1 :
              SimilarityOf(handed[i]) >= SimilarityOf(handed[i + 1])
        /\ \A c \in ChunkIds :
              (\A i \in 1 .. Len(handed) : handed[i] # c) =>
                  \A i \in 1 .. Len(handed) :
                      SimilarityOf(handed[i]) >= SimilarityOf(c)

----------------------------------------------------------------------------
\* Loop iterations of chunkText: the body ran from the cursor `start`.
Iterates == cpc = "loop" /\ iter' = iter + 1

\* C23: called with 0 <= overlap < chunkSize, every loop iteration of
\* chunkText starts at a non-negative cursor and leaves the cursor strictly
\* further on, so that the loop comes to its exit.
C23_CursorAdvances ==
    [][(0 <= overlap /\ overlap < chunkSize /\ Iterates)
          => (start >= 0 /\ start' > start)]_vars

\* The offsets o from the chunk start s of the sentence terminators that lie
\* in the lookahead slice and within SentenceWindow of size.
IsTerminator(t, p) ==
    /\ p >= 0 /\ p + 2 <= Len(t)
    /\ t[p + 1] \in {".", "!", "?"}
    /\ t[p + 2] \in {" ", "\n"}
TerminatorOffsets(t, s, size) ==
    { o \in 0 .. (size + SentenceWindow) :
        /\ o >= size - SentenceWindow
        /\ s + o + 2 <= Min(s + size + Lookahead, Len(t))
        /\ IsTerminator(t, s + o) }
Distance(a, b) == IF a >= b THEN a - b ELSE b - a

\* C24: an iteration for a non-final chunk ends the chunk just after the
\* terminator of the window whose offset is nearest to chunkSize, and after
\* exactly chunkSize characters when the window holds no terminator.
C24_NearestTerminator ==
    [][(Iterates /\ start >= 0 /\ start + chunkSize < Len(text))
          => LET offsets == TerminatorOffsets(text, start, chunkSize)
                 end     == start' + overlap
             IN  IF offsets = {}
                 THEN end = start + chunkSize
                 ELSE \E o \in offsets :
                        /\ \A p \in offsets :
                              Distance(o, chunkSize) <= Distance(p, chunkSize)
                        /\ end = start + o + 2]_vars

----------------------------------------------------------------------------
\* Claims about the annotations a set-intent request leaves behind.

\* The request of slot r was answered with an error.
ErrorAnswered(r) == rpc[r] = "responded" /\ ResponseOf(r).status # 200

\* Since the request of slot r arrived nothing but that request has written
\* annotations: no request came after it and the annotation routes were not
\* called.
OnlyWriter(r) == run[r] = nextRun - 1 /\ epc = "idle" /\ eresp = << >>

\* C25: once a set-intent request has been answered with an error, the
\* annotations stored for the document are those stored when the request
\* arrived: none deleted, none added.
C25_ErrorKeepsAnnotations ==
    \A r \in Reqs :
        (ErrorAnswered(r) /\ OnlyWriter(r)) => annotations = annBefore[r]

\* No request is being served and every request sent was answered 200.
AllSucceeded ==
    /\ responses # << >>
    /\ \A r \in Reqs : ~Running(r)
    /\ \A i \in 1 .. Len(responses) : responses[i].status = 200

IsUserAnnotation(a) == ~a.isAiGenerated

\* The pipeline runs whose annotations are stored (0: before any request).
StoredAiRuns ==
    { annotations[i].by : i \in { j \in 1 .. Len(annotations) :
                                     annotations[j].isAiGenerated } }

\* C26: when the requests sent to a document, one after the other or
\* interleaved, have all been answered 200, the AI annotations stored come
\* from a single pipeline run and the user annotations are those stored when
\* the requests arrived.
C26_OneRunOfAiAnnotations ==
    AllSucceeded =>
        /\ Cardinality(StoredAiRuns) <= 1
        /\ \A r \in Reqs :
              rpc[r] = "responded" =>
                  SelectSeq(annotations, IsUserAnnotation)
                      = SelectSeq(annBefore[r], IsUserAnnotation)

----------------------------------------------------------------------------
\* Claims about isGarbledText.

\* The reference detector, counted position by position on the first
\* SampleLength characters: a letter belongs to a word when it stands in a
\* row of three letters, and a word starts where three letters follow a
\* character that is not a letter (or the start of the sample).
LetterAt(t, i) == i >= 1 /\ i <= Len(t) /\ IsLetter(t[i])
InWord(t, i) ==
    \E j \in (i - 2) .. i : LetterAt(t, j) /\ LetterAt(t, j + 1) /\ LetterAt(t, j + 2)
ReferenceGarbled(t) ==
    IF Len(t) < 100 THEN FALSE
    ELSE LET s == [i \in 1 .. Min(Len(t), 2000) |-> t[i]]
             wordChars == Cardinality({ i \in 1 .. Len(s) : InWord(s, i) })
             words == Cardinality({ i \in 1 .. Len(s) :
                                       InWord(s, i) /\ ~LetterAt(s, i - 1) })
             total == Cardinality({ i \in 1 .. Len(s) : ~IsWhitespace(s[i]) })
             brackets == Cardinality({ i \in 1 .. Len(s) : s[i] \in BracketChars })
         IN  \/ total = 0
             \/ 10 * wordChars < 4 * total
             \/ 10 * brackets > total
             \/ words > 10 /\ wordChars < 3 * words

\* C21: isGarbledText returns what the reference detector returns: false for
\* a text shorter than 100 characters, and otherwise, on the first 2000
\* characters, whether wordRatio < 0.4 or bracketRatio > 0.1 or there are
\* more than 10 words of an average length below 3.
C21_ReferenceDetector == gtpc = "done" => garbled = ReferenceGarbled(gtext)

\* A text longer than the sample is found usable although its characters
\* behind the sample are brackets only.
C21_Witness ==
    /\ gtpc = "done"
    /\ Len(gtext) > SampleLength
    /\ gtext[Len(gtext)] = "@"
    /\ ~garbled

\* C28: the third condition of isGarbledText, more than 10 words of an
\* average length below 3, holds for no text, and the result for a text of
\* 100 characters or more is wordRatio < 0.4 or bracketRatio > 0.1.
C28_ThirdConditionNeverHolds ==
    gtpc = "done" =>
        /\ ~FragmentedWords(Sample(gtext))
        /\ Len(gtext) >= GarbledMinLength =>
              garbled = (WordRatioLow(Sample(gtext)) \/ BracketRatioHigh(Sample(gtext)))

\* A text of more than 10 words, each of three letters, mixed with runs of two
\* letters, has been judged.
C28_Witness ==
    /\ gtpc = "done"
    /\ Len(gtext) >= GarbledMinLength
    /\ Len(MatchWords(Sample(gtext))) > ManyWords
    /\ JoinedLength(MatchWords(Sample(gtext))) = 3 * Len(MatchWords(Sample(gtext)))
    /\ Len(MatchWordsOfTwo(Sample(gtext))) > Len(MatchWords(Sample(gtext)))

----------------------------------------------------------------------------
\* Claims about the upload route.

\* C22: when the text extracted from an uploaded file, PDF or not, is garbled
\* according to isGarbledText, no document and no chunk is created from it,
\* and the answer of the handler is a rejection.
C22_GarbledRejected ==
    (file.present /\ isGarbledText(fullText)) =>
        /\ documents = << >>
        /\ chunkRows = << >>
        /\ upc = "done" => uresp.status # 200

----------------------------------------------------------------------------
\* Claims about the SearchPanel.

\* The step is a submit event handled by handleSearch.
Submitted == submits' = submits + 1

\* The step settles the k-th onSearch call in the given way.
Settles(k, how) ==
    /\ k \in DOMAIN calls
    /\ calls[k].state = "pending"
    /\ calls'[k].state = how

\* C27: a submit with a non-blank query and a document sets isSearching and
\* calls onSearch; a submit with a blank query or without document changes no
\* state; when onSearch is fulfilled the results are replaced by its value,
\* show-all is reset and isSearching is false; when it is rejected the results
\* and show-all stay as they were and isSearching is false.
C27_SearchLifecycle ==
    [][/\ Submitted =>
            IF NonBlank(panelQuery) /\ panelDocumentId # ""
            THEN /\ isSearching'
                 /\ Len(calls') = Len(calls) + 1
                 /\ calls'[Len(calls')].state = "pending"
                 /\ calls'[Len(calls')].query = panelQuery
            ELSE UNCHANGED <<panelDocumentId, panelQuery, panelResults,
                             isSearching, showAllResults, calls>>
       /\ \A k \in 1 .. MaxSubmits :
            /\ Settles(k, "fulfilled") =>
                  /\ ~isSearching'
                  /\ ~showAllResults'
                  /\ panelResults' = calls'[k].value
            /\ Settles(k, "rejected") =>
                  /\ ~isSearching'
                  /\ UNCHANGED <<panelResults, showAllResults>>]_vars

\* A search was rejected after an earlier one had brought more results than
\* are shown and all of them had been asked for: they are still there.
C27_Witness ==
    /\ Len(calls) = 2
    /\ calls[1].state = "fulfilled"
    /\ calls[2].state = "rejected"
    /\ panelResults = calls[1].value
    /\ Len(displayedResults) = MaxPanelResults
    /\ showAllResults
    /\ ~isSearching

\* Submits with a blank query have been handled: no call was made.
BlankSubmitsHandled ==
    /\ submits = MaxSubmits
    /\ calls = << >>
    /\ panelDocumentId # ""
    /\ ~isSearching

====
